---- MODULE Spec2Model ----
(***************************************************************************)
(* A model of the client-side graph subsystem of mageflow's visualizer:    *)
(*   - APIClient (batching, caching, de-duplication, retry),               *)
(*   - the normalized graph store, the progressive loader and the          *)
(*     realtime (push) handlers,                                           *)
(*   - the container dimension / layout computations.                      *)
(* Each component has its own specification over the shared variables.     *)
(***************************************************************************)
EXTENDS Integers, Sequences, FiniteSets, TLC

(***************************************************************************)
(* Generic helpers                                                         *)
(***************************************************************************)
Range(s) == {s[i] : i \in DOMAIN s}

NoDup(s) == \A i, j \in DOMAIN s : i # j => s[i] # s[j]

Min(a, b) == IF a < b THEN a ELSE b

Max(a, b) == IF a > b THEN a ELSE b

RECURSIVE Pow2(_)
Pow2(n) == IF n <= 0 THEN 1 ELSE 2 * Pow2(n - 1)

RemoveAt(s, i) == SubSeq(s, 1, i - 1) \o SubSeq(s, i + 1, Len(s))

IsPrefix(s, t) == Len(s) <= Len(t) /\ SubSeq(t, 1, Len(s)) = s

(***************************************************************************)
(* APIClient configuration (api/client section of websocket.ts)            *)
(***************************************************************************)
BATCH_SIZE == 50
CACHE_TTL_MS == 30000
MAX_RETRIES == 3
RETRY_DELAY_MS == 1000

(***************************************************************************)
(* Bounds of the APIClient specifications                                  *)
(***************************************************************************)
\* task ids the callers of SpecBatch ask for
NumApiIds == 2
\* calls made on the client in SpecDedup
MaxCalls == 3
\* calls made on the client in SpecBatch
MaxBatchCalls == 2
\* calls made on the client in SpecChunk
MaxChunkCalls == 2
\* calls made on the client in SpecRetry
MaxRetryCalls == 1
\* calls made on the client in SpecCache
MaxCacheCalls == 2
\* how often the clock of SpecCache advances
MaxTicks == 3
MaxLoops == 2
\* ids above BATCH_SIZE that the callers of SpecQueue ask for
QueueOverflow == 1

ApiIds == 1 .. NumApiIds
QueueIds == 1 .. (BATCH_SIZE + QueueOverflow)
\* the id callers of SpecQueue ask for a second time
RepeatableIds == {1}
\* getTask calls in SpecQueue: one per id, and one more
QueueCalls == BATCH_SIZE + QueueOverflow + 1
\* what a batch response may lack: nothing, or task 2
MissingChoices == {{}, {2}}
\* every failed attempt throws an Error object of its own: an error is named by
\* the attempt that threw it; NoError stands for `lastError = null'
NoError == -1
ApiPages == {0, 1}
ApiPageSize == 20

VARIABLES
    cache,            \* APIClient.cache: task id -> timestamp of its entry
    now,              \* Date.now()
    queue,            \* BatchQueue.queue
    pending,          \* BatchQueue.pending: id -> callers waiting for it
    timer,            \* BatchQueue.timer is set
    inflightRequests, \* APIClient.inflightRequests: the keys in the map
    requests,         \* fetchWithRetry invocations that have not returned
    calls,            \* the promises handed to the callers, in call order
    window,           \* history: ids given to BatchQueue.add since the timer was armed
    lastDone,         \* history: the fetchWithRetry invocation that returned last
    invalidated,      \* history: <<call, id>>, the call waited for a fetch of id when id was invalidated
    store,            \* useGraphStore: tasks, edges, rootTaskIds, positions
    loaderState,      \* useProgressiveLoader: stateRef.current
    running,          \* async functions of the loader and the handlers at an await
    loaderCalls,      \* the promises the loader handed to its callers, in call order
    subtaskRequests,  \* history: the api.getTaskSubtasks calls of the loader
    lastOp,           \* history: the operation that ran last
    opCount,          \* history: operations started on the store and the loader
    rendered,         \* `tasks' of the last render of useProgressiveLoader
    server,           \* the workflow graph the server holds
    processors,       \* the processPending loops that wait at an await
    tasksData,        \* the task data given to buildChainGraphLayout
    pageStates,       \* usePaginationState: container id -> page index
    nodes,            \* the nodes of the last buildChainGraphLayout
    graphEdges,       \* the edges of the last buildChainGraphLayout
    sockets,          \* readyState of every WebSocket the client has created
    wsClient,         \* WebSocketClient: the fields of the singleton
    reconnects,       \* history: reconnect attempts made since the last open
    measure,          \* useDimensionCalculator of one node: refs and pending timeouts
    bursts,           \* history: the measurement events of the current burst
    tree,             \* loadTaskTree: the outermost call and the `tasks' of its render
    lazy,             \* useTaskDataLazy: its state, refs and the calls that wait
    container,        \* ContainerTaskNode: its task, its page and the size it renders with
    engine            \* LayoutEngine: the expanded nodes and the last calculateLayout

apiVars == <<cache, now, queue, pending, timer, inflightRequests, requests, calls,
             window, lastDone, invalidated>>

hookVars == <<rendered, server, processors>>

storeVars == <<store, loaderState, running, loaderCalls, subtaskRequests, lastOp,
               opCount, hookVars>>

graphVars == <<tasksData, pageStates, nodes, graphEdges>>

socketVars == <<sockets, wsClient, reconnects>>

measureVars == <<measure, bursts>>

treeVars == <<tree>>

lazyVars == <<lazy>>

viewVars == <<container, engine>>

componentVars == <<socketVars, measureVars, treeVars, lazyVars, viewVars>>

layoutVars == <<graphVars, componentVars>>

vars == <<apiVars, storeVars, layoutVars>>

(***************************************************************************)
(* Values                                                                  *)
(***************************************************************************)
NoValue == [tag |-> "none", ids |-> <<>>, err |-> NoError]
TaskValue(id) == [tag |-> "task", ids |-> <<id>>, err |-> NoError]
TasksValue(ids) == [tag |-> "tasks", ids |-> ids, err |-> NoError]
DataValue == [tag |-> "data", ids |-> <<>>, err |-> NoError]
ErrorValue(e) == [tag |-> "error", ids |-> <<>>, err |-> e]
NotFoundError(id) == [tag |-> "notfound", ids |-> <<id>>, err |-> NoError]

NoKey == [k |-> "none", id |-> 0, page |-> 0, pageSize |-> 0]
RootsKey == [k |-> "roots", id |-> 0, page |-> 0, pageSize |-> 0]
SubtasksKey(id, page, pageSize) ==
    [k |-> "subtasks", id |-> id, page |-> page, pageSize |-> pageSize]
CallbacksKey(id) == [k |-> "callbacks", id |-> id, page |-> 0, pageSize |-> 0]

NewCall(op, key, ids) ==
    [op |-> op, key |-> key, ids |-> ids, status |-> "pending",
     value |-> NoValue, settles |-> 0]

\* resolve / reject invoked on the promise of a caller
SettleCall(c, status, value) ==
    [c EXCEPT !.status = IF c.status = "pending" THEN status ELSE @,
              !.value = IF c.status = "pending" THEN value ELSE @,
              !.settles = @ + 1]

NewRequest(kind, key, ids) ==
    [kind |-> kind, key |-> key, ids |-> ids,
     waiters |-> {}, callbacks |-> <<>>, owner |-> 0,
     cachedPart |-> <<>>, fetched |-> <<>>, rest |-> <<>>,
     attempt |-> 0, phase |-> "fetching", sent |-> 1,
     delays |-> <<>>, lastError |-> NoError, causes |-> <<>>]

\* what fetchWithRetry did for request r, which ended as `outcome'
RetryRecord(r, outcome, err) ==
    [outcome |-> outcome, sent |-> r.sent, delays |-> r.delays, thrown |-> err,
     lastAttempt |-> r.attempt, url |-> r.kind, ids |-> r.ids, causes |-> r.causes]

NoRequest ==
    [outcome |-> "none", sent |-> 0, delays |-> <<>>, thrown |-> NoError,
     lastAttempt |-> 0, url |-> "none", ids |-> <<>>, causes |-> <<>>]

(***************************************************************************)
(* Cache                                                                   *)
(***************************************************************************)
\* an entry whose age is never looked at
Expired_Never(timestamp) == FALSE

\* Cache.get: Date.now() - entry.timestamp > this.ttl
Expired(timestamp) == now - timestamp > CACHE_TTL_MS

\* Cache.get(id) returns the entry's data (and not null)
CacheHit(id) == id \in DOMAIN cache /\ ~Expired(cache[id])

\* the map after Cache.get on each of ids: an expired entry read is deleted
CacheAfterGet(ids) ==
    [x \in DOMAIN cache \ {y \in ids \cap DOMAIN cache : Expired(cache[y])} |-> cache[x]]

\* the map c after Cache.set on each of ids: { data, timestamp: Date.now() }
CacheSet(c, ids) == [x \in DOMAIN c \cup ids |-> IF x \in ids THEN now ELSE c[x]]

\* the map after Cache.delete on each of ids
CacheDelete(ids) == [x \in DOMAIN cache \ ids |-> cache[x]]

(***************************************************************************)
(* fetchWithRetry                                                          *)
(***************************************************************************)
\* for (let attempt = 0; attempt <= retries; attempt++)
LoopContinues_TooFew(attempt) == attempt < MAX_RETRIES
LoopContinues(attempt) == attempt <= MAX_RETRIES

\* if (attempt < retries) await this.delay(...)
DelayBeforeRetry(attempt) == attempt < MAX_RETRIES

\* RETRY_DELAY_MS * Math.pow(2, attempt)
RetryDelay(attempt) == RETRY_DELAY_MS * Pow2(attempt)

(***************************************************************************)
(* What runs when a fetchWithRetry invocation returns or throws            *)
(***************************************************************************)
\* a scheduleBatch that never arms the timer
ScheduleBatch_Never(t) == t

\* scheduleBatch: if (this.timer) return; this.timer = setTimeout(...)
\* the value of `timer is set' afterwards
ScheduleBatch(t) == IF t THEN t ELSE TRUE

\* the response of POST /tasks/batch to ids, the server lacking `missing`
BatchResponse(ids, missing) == SelectSeq(ids, LAMBDA id : id \notin missing)

\* BatchQueue.executeBatch after `await this.fetcher(batch)`, and the
\* continuation of APIClient.getTask of every caller it resolves
QueueBatchDone(r, ok, resp, err) ==
    LET found == Range(resp)
        idOf(c) == calls[c].ids[1]
        caller(c) == /\ calls[c].op = "getTask"
                     /\ idOf(c) \in DOMAIN r.callbacks
                     /\ c \in Range(r.callbacks[idOf(c)])
    IN  /\ calls' = [c \in DOMAIN calls |->
                       IF ~caller(c) THEN calls[c]
                       ELSE IF ~ok THEN SettleCall(calls[c], "rejected", ErrorValue(err))
                       ELSE IF idOf(c) \in found
                            THEN SettleCall(calls[c], "resolved", TaskValue(idOf(c)))
                            ELSE SettleCall(calls[c], "rejected", NotFoundError(idOf(c)))]
        /\ cache' = IF ok THEN CacheSet(cache, found \cap DOMAIN r.callbacks) ELSE cache
        /\ timer' = IF Len(queue) > 0 THEN ScheduleBatch(timer) ELSE timer
        /\ window' = IF Len(queue) > 0 /\ ~timer THEN {} ELSE window
        /\ UNCHANGED <<queue, pending, inflightRequests>>

\* deduplicatedFetch: .finally(() => this.inflightRequests.delete(key))
DedupDone(r, ok, err) ==
    /\ inflightRequests' = inflightRequests \ {r.key}
    /\ calls' = [c \in DOMAIN calls |->
                   IF c \notin r.waiters THEN calls[c]
                   ELSE IF ok THEN SettleCall(calls[c], "resolved", DataValue)
                   ELSE SettleCall(calls[c], "rejected", ErrorValue(err))]
    /\ UNCHANGED <<cache, queue, pending, timer, window>>

\* the request of the next chunk of getTasksBatch
ChunkRequest(owner, cachedPart, fetched, uncached) ==
    [NewRequest("chunk", NoKey, SubSeq(uncached, 1, Min(BATCH_SIZE, Len(uncached))))
        EXCEPT !.owner = owner, !.cachedPart = cachedPart, !.fetched = fetched,
               !.rest = SubSeq(uncached, Min(BATCH_SIZE, Len(uncached)) + 1, Len(uncached))]

\* a getTasksBatch that caches the tasks of every chunk as it arrives
ChunkDone_CacheEach(r, ok, resp, err) ==
    LET fetched == r.fetched \o resp
    IN  /\ calls' = IF ~ok
                    THEN [calls EXCEPT ![r.owner] = SettleCall(@, "rejected", ErrorValue(err))]
                    ELSE IF r.rest # <<>> THEN calls
                    ELSE [calls EXCEPT ![r.owner] =
                            SettleCall(@, "resolved", TasksValue(r.cachedPart \o fetched))]
        /\ cache' = IF ok THEN CacheSet(cache, Range(resp)) ELSE cache
        /\ UNCHANGED <<queue, pending, timer, inflightRequests, window>>

\* APIClient.getTasksBatch after `await this.fetchTasksBatch(batchIds)`
\* more is the sequence of requests the call goes on with
ChunkDone(r, ok, resp, err) ==
    LET fetched == r.fetched \o resp
    IN  /\ calls' = IF ~ok
                    THEN [calls EXCEPT ![r.owner] = SettleCall(@, "rejected", ErrorValue(err))]
                    ELSE IF r.rest # <<>> THEN calls
                    ELSE [calls EXCEPT ![r.owner] =
                            SettleCall(@, "resolved", TasksValue(r.cachedPart \o fetched))]
        /\ cache' = IF ok /\ r.rest = <<>> THEN CacheSet(cache, Range(fetched)) ELSE cache
        /\ UNCHANGED <<queue, pending, timer, inflightRequests, window>>

ChunkNext(r, ok, resp) ==
    IF ok /\ r.rest # <<>>
    THEN <<ChunkRequest(r.owner, r.cachedPart, r.fetched \o resp, r.rest)>>
    ELSE <<>>

\* requests[i], its record now r, returns (ok) or throws err
Complete(i, r, ok, resp, err) ==
    /\ lastDone' = RetryRecord(r, IF ok THEN "resolved" ELSE "rejected", err)
    /\ UNCHANGED invalidated
    /\ CASE r.kind = "dedup" ->
              /\ DedupDone(r, ok, err)
              /\ requests' = RemoveAt(requests, i)
         [] r.kind = "queue" ->
              /\ QueueBatchDone(r, ok, resp, err)
              /\ requests' = RemoveAt(requests, i)
         [] r.kind = "chunk" ->
              /\ ChunkDone(r, ok, resp, err)
              /\ requests' = RemoveAt(requests, i) \o ChunkNext(r, ok, resp)

(***************************************************************************)
(* The network and the timers, as seen by fetchWithRetry                   *)
(***************************************************************************)
\* this.fetch resolves: return await this.fetch(url, options)
FetchSucceed(i) ==
    /\ i \in DOMAIN requests
    /\ requests[i].phase = "fetching"
    /\ \E missing \in MissingChoices :
          Complete(i, requests[i], TRUE,
                   BatchResponse(requests[i].ids, missing), NoError)

\* why this.fetch throws: fetch() rejects, response.ok is false, or
\* response.json() rejects on a body that cannot be parsed
FailureCauses == {"network", "status", "malformed"}

\* the call c waits for what request r fetches of id
FetchesFor(r, c, id) ==
    /\ id \in Range(r.ids)
    /\ \/ r.kind = "chunk" /\ r.owner = c
       \/ r.kind = "queue" /\ id \in DOMAIN r.callbacks /\ c \in Range(r.callbacks[id])

\* history: the next attempt of r fetches its ids again
Refetched(r) == {p \in invalidated : ~FetchesFor(r, p[1], p[2])}

\* this.fetch throws for `cause': catch, then the delay, or attempt++ and the
\* loop test; the catch block does not look at the error
FetchFailAs(i, cause) ==
    /\ i \in DOMAIN requests
    /\ requests[i].phase = "fetching"
    /\ LET r == [requests[i] EXCEPT !.lastError = requests[i].attempt,
                                    !.causes = Append(@, cause)]
       IN  IF DelayBeforeRetry(r.attempt)
           THEN /\ requests' = [requests EXCEPT ![i] =
                                  [r EXCEPT !.phase = "delaying",
                                            !.delays = Append(@, RetryDelay(r.attempt))]]
                /\ invalidated' = Refetched(r)
                /\ UNCHANGED <<cache, queue, pending, timer, inflightRequests, calls,
                               window, lastDone>>
           ELSE IF LoopContinues(r.attempt + 1)
           THEN /\ requests' = [requests EXCEPT ![i] =
                                  [r EXCEPT !.attempt = @ + 1, !.sent = @ + 1]]
                /\ invalidated' = Refetched(r)
                /\ UNCHANGED <<cache, queue, pending, timer, inflightRequests, calls,
                               window, lastDone>>
           ELSE Complete(i, r, FALSE, <<>>, r.lastError)

\* this.fetch throws; the cause is of no interest
FetchFail(i) == FetchFailAs(i, "network")

\* the retry delay elapses: attempt++ and the loop test
DelayElapsed(i) ==
    /\ i \in DOMAIN requests
    /\ requests[i].phase = "delaying"
    /\ LET r == requests[i]
       IN  IF LoopContinues(r.attempt + 1)
           THEN /\ requests' = [requests EXCEPT ![i] =
                                  [r EXCEPT !.attempt = @ + 1, !.sent = @ + 1,
                                            !.phase = "fetching"]]
                /\ UNCHANGED <<cache, queue, pending, timer, inflightRequests, calls,
                               window, lastDone, invalidated>>
           ELSE Complete(i, r, FALSE, <<>>, r.lastError)

(***************************************************************************)
(* The operations of APIClient                                             *)
(***************************************************************************)
DeduplicatedFetch_NoShare(op, key) ==
    /\ calls' = Append(calls, NewCall(op, key, <<>>))
    /\ requests' = Append(requests,
                       [NewRequest("dedup", key, <<>>) EXCEPT !.waiters = {Len(calls) + 1}])
    /\ inflightRequests' = inflightRequests \cup {key}
    /\ UNCHANGED <<cache, queue, pending, timer, window, lastDone, invalidated>>

\* deduplicatedFetch(key, fetcher) called for a new promise of operation op
DeduplicatedFetch(op, key) ==
    LET c == Len(calls) + 1
    IN  /\ calls' = Append(calls, NewCall(op, key, <<>>))
        /\ IF key \in inflightRequests
           THEN /\ requests' = [i \in DOMAIN requests |->
                                  IF requests[i].kind = "dedup" /\ requests[i].key = key
                                  THEN [requests[i] EXCEPT !.waiters = @ \cup {c}]
                                  ELSE requests[i]]
                /\ UNCHANGED inflightRequests
           ELSE /\ requests' = Append(requests,
                                  [NewRequest("dedup", key, <<>>) EXCEPT !.waiters = {c}])
                /\ inflightRequests' = inflightRequests \cup {key}
        /\ UNCHANGED <<cache, queue, pending, timer, window, lastDone, invalidated>>

GetRootTaskIds == DeduplicatedFetch("getRootTaskIds", RootsKey)

GetTaskSubtasks(id, page, pageSize) ==
    DeduplicatedFetch("getTaskSubtasks", SubtasksKey(id, page, pageSize))

GetTaskCallbacks(id) == DeduplicatedFetch("getTaskCallbacks", CallbacksKey(id))

\* the ids of `ids' that BatchQueue.add pushes on the queue: not pending yet,
\* each at its first occurrence
\*   if (!this.pending.has(taskId)) { this.pending.set(taskId, []); this.queue.push(taskId) }
QueuePushes(ids) ==
    LET idx == SelectSeq([k \in DOMAIN ids |-> k],
                         LAMBDA k : /\ ~CacheHit(ids[k])
                                    /\ ids[k] \notin DOMAIN pending
                                    /\ \A j \in 1 .. (k - 1) : ids[j] # ids[k])
    IN  [i \in DOMAIN idx |-> ids[idx[i]]]

\* getTask called for each of ids in turn, in one tick; the k-th call is
\* answered from the cache, or goes through BatchQueue.add and scheduleBatch
GetTaskEach(ids) ==
    LET n == Len(calls)
        uncached == {k \in DOMAIN ids : ~CacheHit(ids[k])}
        added == {ids[k] : k \in uncached}
        callersOf(x) == [i \in DOMAIN SelectSeq([k \in DOMAIN ids |-> k],
                                 LAMBDA k : k \in uncached /\ ids[k] = x) |->
                           n + SelectSeq([k \in DOMAIN ids |-> k],
                                 LAMBDA k : k \in uncached /\ ids[k] = x)[i]]
    IN  /\ calls' = calls \o
              [k \in DOMAIN ids |->
                  IF k \in uncached
                  THEN NewCall("getTask", NoKey, <<ids[k]>>)
                  ELSE SettleCall(NewCall("getTask", NoKey, <<ids[k]>>),
                                  "resolved", TaskValue(ids[k]))]
        /\ queue' = queue \o QueuePushes(ids)
        /\ pending' = [x \in DOMAIN pending \cup added |->
                          IF x \in DOMAIN pending
                          THEN pending[x] \o callersOf(x)
                          ELSE callersOf(x)]
        /\ timer' = IF added # {} THEN ScheduleBatch(timer) ELSE timer
        /\ window' = IF added = {} THEN window
                     ELSE IF timer THEN window \cup added ELSE added
        /\ cache' = CacheAfterGet(Range(ids))
        /\ UNCHANGED <<inflightRequests, requests, lastDone, invalidated>>

GetTask(id) == GetTaskEach(<<id>>)

\* const batch = this.queue.splice(0, BATCH_SIZE)
TakeBatch_All(q) == q
TakeBatch(q) == SubSeq(q, 1, Min(BATCH_SIZE, Len(q)))

\* the timer fires: this.timer = null; executeBatch up to its await
TimerFires ==
    /\ timer
    /\ timer' = FALSE
    /\ window' = {}
    /\ IF Len(queue) = 0
       THEN UNCHANGED <<queue, pending, requests>>
       ELSE LET batch == TakeBatch(queue)
            IN  /\ queue' = SubSeq(queue, Len(batch) + 1, Len(queue))
                /\ pending' = [x \in DOMAIN pending \ Range(batch) |-> pending[x]]
                /\ requests' = Append(requests,
                      [NewRequest("queue", NoKey, batch) EXCEPT
                          !.callbacks = [x \in Range(batch) |-> pending[x]]])
    /\ UNCHANGED <<cache, inflightRequests, calls, lastDone, invalidated>>

\* getTasksBatch up to its first await
GetTasksBatch(ids) ==
    LET c == Len(calls) + 1
        call == NewCall("getTasksBatch", NoKey, ids)
        cachedPart == SelectSeq(ids, LAMBDA id : CacheHit(id))
        uncached == SelectSeq(ids, LAMBDA id : ~CacheHit(id))
    IN  /\ IF Len(uncached) = 0
           THEN /\ calls' = Append(calls, SettleCall(call, "resolved", TasksValue(cachedPart)))
                /\ UNCHANGED requests
           ELSE /\ calls' = Append(calls, call)
                /\ requests' = Append(requests, ChunkRequest(c, cachedPart, <<>>, uncached))
        /\ cache' = CacheAfterGet(Range(ids))
        /\ UNCHANGED <<queue, pending, timer, inflightRequests, window, lastDone, invalidated>>

InvalidateTask(id) ==
    /\ cache' = CacheDelete({id})
    /\ UNCHANGED <<queue, pending, timer, inflightRequests, requests, calls,
                   window, lastDone, invalidated>>

InvalidateAll ==
    /\ cache' = CacheDelete(DOMAIN cache)
    /\ UNCHANGED <<queue, pending, timer, inflightRequests, requests, calls,
                   window, lastDone, invalidated>>

(***************************************************************************)
(* Initial states: the empty store, a fresh loader, no graph laid out      *)
(***************************************************************************)
Null == "null"
\* `dimensions: null' of a task; measured dimensions are <<[width, height]>>
NoDimensions == <<>>
EmptyMap == [x \in {} |-> Null]

\* graphStore.ts initialState
TaskIds == {"p", "a", "b", "c", "s"}

ChainGraph ==
    [roots |-> <<"p">>,
     type |-> [t \in TaskIds |-> IF t = "p" THEN "chain" ELSE "task"],
     parent |-> [t \in TaskIds |-> IF t \in {"a", "b", "c"} THEN "p" ELSE Null],
     subtasks |-> [t \in TaskIds |-> IF t = "p" THEN <<"a", "b", "c">> ELSE <<>>],
     success |-> [t \in TaskIds |-> IF t = "p" THEN <<"s">> ELSE <<>>],
     error |-> [t \in TaskIds |-> <<>>]]

\* seven roots: r1 .. r5 share the success callback s, r6 and r7 the success
\* callback t; s and t are each other's error callback
WideRoots == <<"r1", "r2", "r3", "r4", "r5", "r6", "r7">>
WideIds == Range(WideRoots) \cup {"s", "t"}

WideGraph ==
    [roots |-> WideRoots,
     type |-> [x \in WideIds |-> "task"],
     parent |-> [x \in WideIds |-> Null],
     subtasks |-> [x \in WideIds |-> <<>>],
     success |-> [x \in WideIds |->
                    IF x \in {"r1", "r2", "r3", "r4", "r5"} THEN <<"s">>
                    ELSE IF x \in {"r6", "r7"} THEN <<"t">> ELSE <<>>],
     error |-> [x \in WideIds |->
                  IF x = "s" THEN <<"t">> ELSE IF x = "t" THEN <<"s">> ELSE <<>>]]

\* two roots with the same success callback s; s and t are each other's
\* callback; the root p is a chain of the one subtask a
CycleIds == {"p", "q", "s", "t", "a"}

CycleGraph ==
    [roots |-> <<"p", "q">>,
     type |-> [x \in CycleIds |-> IF x = "p" THEN "chain" ELSE "task"],
     parent |-> [x \in CycleIds |-> IF x = "a" THEN "p" ELSE Null],
     subtasks |-> [x \in CycleIds |-> IF x = "p" THEN <<"a">> ELSE <<>>],
     success |-> [x \in CycleIds |->
                    IF x \in {"p", "q"} THEN <<"s">>
                    ELSE IF x = "s" THEN <<"t">> ELSE <<>>],
     error |-> [x \in CycleIds |-> IF x = "t" THEN <<"s">> ELSE <<>>]]

\* the hook was rendered with the empty store; `current' is FALSE once the
\* store holds a `tasks' object the hook was not rendered with
FirstRender == [tasks |-> EmptyMap, current |-> TRUE]

initialState ==
    [tasks |-> EmptyMap, edges |-> EmptyMap, rootTaskIds |-> <<>>,
     positions |-> EmptyMap]

\* useProgressiveLoader: useRef<LoaderState>({...})
LoaderInit ==
    [loadedTaskIds |-> {}, loadedCallbacks |-> {}, loadedSubtasks |-> {},
     pendingCallbackTaskIds |-> <<>>, loadingPromises |-> EmptyMap]

NoOp == [op |-> "none", id |-> Null, overwrote |-> FALSE]

StoreInitOn(graph) ==
    /\ server = graph
    /\ rendered = FirstRender
    /\ processors = {}
    /\ store = initialState
    /\ loaderState = LoaderInit
    /\ running = {}
    /\ loaderCalls = <<>>
    /\ subtaskRequests = <<>>
    /\ lastOp = NoOp
    /\ opCount = 0

StoreInit == StoreInitOn(ChainGraph)

\* class WebSocketClient: the field initialisers; no socket is created yet
SocketIdle ==
    /\ sockets = <<>>
    /\ wsClient = [ws |-> 0, reconnectAttempts |-> 0, reconnectTimer |-> 0,
                   heartbeatTimer |-> FALSE, isIntentionallyClosed |-> FALSE,
                   intervals |-> 0]
    /\ reconnects = 0

\* useDimensionCalculator before the node is mounted
MeasureIdle ==
    /\ measure = [mounted |-> "no", debounceTimer |-> 0, timeouts |-> {}, calls |-> 0]
    /\ bursts = [events |-> 0, lastAt |-> 0, width |-> 0, height |-> 0, writes |-> 0]

\* loadTaskTree has not been called
TreeIdle == tree = [id |-> Null, depth |-> 0, tasks |-> EmptyMap, calls |-> 0]

\* useTaskDataLazy at its first render
NoPending == [tasks |-> {}, depths |-> EmptyMap, loadingStates |-> EmptyMap]

NoRender == [tasks |-> {}, taskDepths |-> EmptyMap, loadingStates |-> EmptyMap]

LazyIdle ==
    lazy = [tasks |-> {}, taskDepths |-> EmptyMap, loadingStates |-> EmptyMap,
            pending |-> NoPending, flushTimeout |-> FALSE, stack |-> <<>>,
            closure |-> NoRender, fetches |-> {}, recorded |-> {}, runs |-> 0]

\* no ContainerTaskNode is rendered
ContainerIdle ==
    container = [tasks |-> EmptyMap, task |-> Null, currentPage |-> 1, width |-> 0, height |-> 0]

\* calculateLayout has not been called
EngineIdle ==
    engine = [rootId |-> Null, expandedNodeIds |-> {}, relevantTaskIds |-> {}, nodes |-> {},
              edges |-> {}]

ComponentsIdle ==
    SocketIdle /\ MeasureIdle /\ TreeIdle /\ LazyIdle /\ ContainerIdle /\ EngineIdle

LayoutIdle ==
    /\ tasksData = EmptyMap
    /\ pageStates = EmptyMap
    /\ nodes = EmptyMap
    /\ graphEdges = {}
    /\ ComponentsIdle

(***************************************************************************)
(* Initial state of the client                                             *)
(***************************************************************************)
ApiInit ==
    /\ cache = <<>>
    /\ now = 0
    /\ queue = <<>>
    /\ pending = <<>>
    /\ timer = FALSE
    /\ inflightRequests = {}
    /\ requests = <<>>
    /\ calls = <<>>
    /\ window = {}
    /\ lastDone = NoRequest
    /\ invalidated = {}

ApiInvalidate ==
    \/ \E id \in ApiIds : InvalidateTask(id)
    \/ InvalidateAll

\* the page opens: nothing requested, the store empty, nothing laid out
ClientInit == ApiInit /\ StoreInit /\ LayoutIdle

Network ==
    \E i \in DOMAIN requests :
        \/ FetchSucceed(i)
        \/ FetchFail(i)
        \/ DelayElapsed(i)

(***************************************************************************)
(* SpecDedup: the de-duplicated reads (roots, children pages, callbacks)   *)
(***************************************************************************)
DedupCall ==
    /\ Len(calls) < MaxCalls
    /\ \/ GetRootTaskIds
       \/ \E page \in ApiPages : GetTaskSubtasks(1, page, ApiPageSize)
       \/ GetTaskCallbacks(1)

DedupNext ==
    \/ DedupCall /\ UNCHANGED <<now, storeVars, layoutVars>>
    \/ Network /\ UNCHANGED <<now, storeVars, layoutVars>>

SpecDedup == ClientInit /\ [][DedupNext]_vars

(***************************************************************************)
(* SpecRetry: one or two reads, the cause of every failed attempt told     *)
(* apart                                                                   *)
(***************************************************************************)
RetryCall ==
    /\ Len(calls) < MaxRetryCalls
    /\ \/ GetRootTaskIds
       \/ GetTaskCallbacks(1)

RetryNetwork ==
    \E i \in DOMAIN requests :
        \/ FetchSucceed(i)
        \/ \E cause \in FailureCauses : FetchFailAs(i, cause)
        \/ DelayElapsed(i)

RetryNext ==
    \/ RetryCall /\ UNCHANGED <<now, storeVars, layoutVars>>
    \/ RetryNetwork /\ UNCHANGED <<now, storeVars, layoutVars>>

SpecRetry == ClientInit /\ [][RetryNext]_vars

(***************************************************************************)
(* SpecBatch: getTask and getTasksBatch on a few ids                       *)
(***************************************************************************)
BatchArgs == {<<1>>, <<1, 2>>}

BatchCall ==
    /\ Len(calls) < MaxBatchCalls
    /\ \/ \E id \in ApiIds : GetTask(id)
       \/ \E ids \in BatchArgs : GetTasksBatch(ids)

TimerStep == TimerFires /\ UNCHANGED <<now, storeVars, layoutVars>>

NetworkStep == Network /\ UNCHANGED <<now, storeVars, layoutVars>>

BatchNext ==
    \/ BatchCall /\ UNCHANGED <<now, storeVars, layoutVars>>
    \/ ApiInvalidate /\ UNCHANGED <<now, storeVars, layoutVars>>
    \/ TimerStep
    \/ NetworkStep

SpecBatch == ClientInit /\ [][BatchNext]_vars

(***************************************************************************)
(* SpecChunk: getTasksBatch on more ids than one chunk holds, next to      *)
(* getTask calls                                                           *)
(***************************************************************************)
LongBatch == [i \in 1 .. (BATCH_SIZE + QueueOverflow) |-> i]

ChunkedCall ==
    /\ Len(calls) < MaxChunkCalls
    /\ \/ GetTasksBatch(LongBatch)
       \/ \E id \in {1, 2} : GetTask(id)

ChunkedNext ==
    \/ ChunkedCall /\ UNCHANGED <<now, storeVars, layoutVars>>
    \/ TimerStep
    \/ NetworkStep

SpecChunk == ClientInit /\ [][ChunkedNext]_vars

(***************************************************************************)
(* SpecCache: getTask and getTasksBatch while time passes, half a TTL at a *)
(* time                                                                    *)
(***************************************************************************)
ClockStep == CACHE_TTL_MS \div 2

Tick ==
    /\ now < MaxTicks * ClockStep
    /\ now' = now + ClockStep
    /\ UNCHANGED <<cache, queue, pending, timer, inflightRequests, requests, calls,
                   window, lastDone, invalidated>>

CacheCall ==
    /\ Len(calls) < MaxCacheCalls
    /\ \/ GetTask(1)
       \/ GetTasksBatch(<<1, 2>>)

CacheNext ==
    \/ CacheCall /\ UNCHANGED <<now, storeVars, layoutVars>>
    \/ Tick /\ UNCHANGED <<storeVars, layoutVars>>
    \/ TimerStep
    \/ NetworkStep

SpecCache == ClientInit /\ [][CacheNext]_vars

(***************************************************************************)
(* SpecQueue: getTask on more ids than one batch holds.  The ids are       *)
(* interchangeable, so new ids are asked for in increasing order: a first   *)
(* tick asks for about BATCH_SIZE ids at once, later ticks for one id.     *)
(***************************************************************************)
AskedIds == {calls[c].ids[1] : c \in DOMAIN calls}

\* the first tick asks for ids 1 .. n, n around BATCH_SIZE
QueueBurst ==
    /\ calls = <<>>
    /\ \E n \in (BATCH_SIZE - 1) .. (BATCH_SIZE + QueueOverflow) :
          GetTaskEach([i \in 1 .. n |-> i])

\* later ticks ask for the next new id, or for one of 1 .. RepeatIds again
QueueCall ==
    /\ calls # <<>>
    /\ Len(calls) < QueueCalls
    /\ \E id \in QueueIds :
          /\ \/ id = Cardinality(AskedIds) + 1
             \/ id \in AskedIds /\ id \in RepeatableIds
          /\ GetTask(id)

\* the batch requests are answered in the order they were sent
QueueNetwork ==
    /\ \/ FetchSucceed(1)
       \/ FetchFail(1)
       \/ DelayElapsed(1)
    /\ UNCHANGED <<now, storeVars, layoutVars>>

QueueNext ==
    \/ QueueBurst /\ UNCHANGED <<now, storeVars, layoutVars>>
    \/ QueueCall /\ UNCHANGED <<now, storeVars, layoutVars>>
    \/ TimerStep
    \/ QueueNetwork

SpecQueue == ClientInit /\ [][QueueNext]_vars

(***************************************************************************)
(* Fairness: an armed timer fires and every fetch settles                  *)
(***************************************************************************)
FairSpecBatch == SpecBatch /\ WF_vars(TimerStep) /\ WF_vars(NetworkStep)

FairSpecQueue == SpecQueue /\ WF_vars(TimerStep) /\ WF_vars(QueueNetwork)

(***************************************************************************)
(* Properties of the APIClient                                             *)
(***************************************************************************)
DedupRequests == {i \in DOMAIN requests : requests[i].kind = "dedup"}
BatchRequests == {i \in DOMAIN requests : requests[i].kind \in {"queue", "chunk"}}
QueueRequests == {i \in DOMAIN requests : requests[i].kind = "queue"}
DedupCalls == {c \in DOMAIN calls : calls[c].key # NoKey}
GetTaskCalls == {c \in DOMAIN calls : calls[c].op = "getTask"}

C3_State ==
    /\ \A i, j \in DedupRequests : i # j => requests[i].key # requests[j].key
    /\ inflightRequests = {requests[i].key : i \in DedupRequests}
    /\ \A c \in DedupCalls :
          calls[c].status = "pending" =>
             \E i \in DedupRequests :
                requests[i].key = calls[c].key /\ c \in requests[i].waiters

C3_Step ==
    /\ \A c1, c2 \in DedupCalls :
          /\ calls[c1].key = calls[c2].key
          /\ calls[c1].status = "pending"
          /\ calls[c2].status = "pending"
          => /\ calls'[c1].status = calls'[c2].status
             /\ calls'[c1].value = calls'[c2].value
    /\ \A c \in DOMAIN calls' \ DOMAIN calls :
          (\E d \in DedupCalls : calls[d].status = "pending" /\ calls[d].key = calls'[c].key)
          => Len(requests') = Len(requests)

\* C3: for the de-duplicated reads (roots, a children page, the callbacks of a
\* task) at most one request per key is in flight; a call made while a call
\* for its key is pending issues no request and settles with the outcome of
\* that call; the key is in the in-flight map exactly while its request runs.
C3_OneRequestPerKey == []C3_State /\ [][C3_Step]_vars

\* two callers share one request that has already failed once
C3_Witness ==
    \E i \in DedupRequests :
        Cardinality(requests[i].waiters) >= 2 /\ requests[i].sent >= 2

\* C7: no two POST /tasks/batch requests that contain the same task id are in
\* flight at once.
C7_NoOverlappingBatches ==
    \A i, j \in BatchRequests :
        /\ i # j
        /\ requests[i].phase = "fetching"
        /\ requests[j].phase = "fetching"
        => Range(requests[i].ids) \cap Range(requests[j].ids) = {}

C8_State ==
    /\ \A i \in QueueRequests :
          Len(requests[i].ids) <= 50 /\ NoDup(requests[i].ids)
    /\ NoDup(queue)
    /\ timer => window \subseteq Range(queue)
    /\ Len(queue) > 0 => timer \/ QueueRequests # {}

C8_Step ==
    timer /\ ~timer' =>
        LET n == Min(50, Len(queue))
            sent == requests'[Len(requests')]
        IN  /\ Len(requests') = Len(requests) + 1
            /\ sent.kind = "queue"
            /\ sent.ids = SubSeq(queue, 1, n)
            /\ queue' = SubSeq(queue, n + 1, Len(queue))
            /\ Len(queue) <= 50 => window \subseteq Range(sent.ids)

\* C8: when the micro-batch timer fires, the ids asked for since it was armed
\* go out in one batch request, each id once; a request carries at most 50
\* ids, the ids beyond the first 50 stay queued in order, and the queue is
\* emptied by later batches.
C8_MicroBatch == []C8_State /\ [][C8_Step]_vars /\ []<>(queue = <<>>)

\* a full batch is in flight while the ids beyond it are still queued
C8_Witness ==
    \E i \in QueueRequests : Len(requests[i].ids) = 50 /\ Len(queue) > 0

C9_State ==
    \A c \in GetTaskCalls :
        LET id == calls[c].ids[1]
        IN  /\ calls[c].settles <= 1
            /\ calls[c].status = "pending" <=> calls[c].settles = 0
            /\ calls[c].status = "resolved" => calls[c].value = TaskValue(id)
            /\ calls[c].status = "rejected" =>
                  \/ calls[c].value = NotFoundError(id)
                  \/ calls[c].value = ErrorValue(MAX_RETRIES)
            /\ calls[c].status = "pending" =>
                  \/ id \in DOMAIN pending /\ c \in Range(pending[id])
                  \/ \E i \in QueueRequests :
                        id \in DOMAIN requests[i].callbacks
                        /\ c \in Range(requests[i].callbacks[id])

\* the callers of a batch settle in the step in which its request returns
C9_Step ==
    \A i \in QueueRequests :
        \A id \in DOMAIN requests[i].callbacks :
            \A c \in Range(requests[i].callbacks[id]) :
                calls'[c].status # "pending" =>
                    /\ Len(requests') < Len(requests)
                    /\ lastDone'.url = "queue"
                    /\ lastDone'.ids = requests[i].ids
                    /\ lastDone'.outcome = "rejected" =>
                          calls'[c].value = ErrorValue(lastDone'.thrown)
                    /\ lastDone'.outcome = "resolved" =>
                          calls'[c].status \in {"resolved", "rejected"}

\* C9: the promise of getTask(id) for an uncached id settles once, when the
\* batch carrying id returns: with the task id, with not-found when the
\* response lacks id, with the batch error when the request failed; and
\* every caller is settled in the end.
C9_CallersSettle ==
    /\ []C9_State
    /\ [][C9_Step]_vars
    /\ []<>(\A c \in GetTaskCalls : calls[c].status # "pending")

\* one batch carried ids 1 and 2: the caller of 1 has its task, the caller
\* of 2 was told that 2 was not found
C9_Witness ==
    /\ lastDone.url = "queue"
    /\ lastDone.ids = <<1, 2>>
    /\ Len(calls) = 2
    /\ calls[1].op = "getTask" /\ calls[2].op = "getTask"
    /\ calls[1].value = TaskValue(1)
    /\ calls[2].value = NotFoundError(2)

(***************************************************************************)
(* C11: a failed batch leaves the cache and the other queued ids alone     *)
(***************************************************************************)
\* a getTask or getTasksBatch promise rejects with the error of its request
C11_Rejects ==
    \E c \in DOMAIN calls :
        /\ calls[c].op \in {"getTask", "getTasksBatch"}
        /\ calls[c].status = "pending"
        /\ calls'[c].status = "rejected"
        /\ calls'[c].value.tag = "error"

\* a chunk of a getTasksBatch call succeeded and the call goes on to its next chunk
C11_ChunkSucceeds ==
    \E j \in DOMAIN requests' :
        /\ requests'[j].kind = "chunk"
        /\ requests'[j].fetched # <<>>
        /\ requests'[j] \notin Range(requests)

C11_Step ==
    /\ C11_Rejects => cache' = cache /\ pending' = pending /\ queue' = queue
    /\ C11_ChunkSucceeds => cache' = cache
    /\ (Len(requests') > Len(requests) /\ requests'[Len(requests')].kind = "queue") =>
              LET batch == requests'[Len(requests')].ids
              IN  /\ queue = batch \o queue'
                  /\ DOMAIN pending' = DOMAIN pending \ Range(batch)
                  /\ \A x \in DOMAIN pending' : pending'[x] = pending[x]
    /\ \A id \in DOMAIN cache :
          CacheHit(id) /\ Len(calls') > Len(calls) =>
              id \in DOMAIN cache' /\ cache'[id] = cache[id]

\* C11: in the step in which getTask or getTasksBatch rejects with the error of
\* a failed batch request the cache, the pending map and the queue do not
\* change; a getTasksBatch call caches nothing while chunks of it are still
\* to come, so nothing of it is cached when a later chunk fails; the step
\* that sends a micro-batch removes the ids of that batch from the pending
\* map and no other; making a call removes no live entry from the cache.
C11_FailureFrame == [][C11_Step]_vars

\* the second chunk of a getTasksBatch call failed after the first had
\* succeeded, while task 1 is cached: the call is rejected and the cache
\* holds task 1 only
C11_Witness ==
    /\ lastDone.outcome = "rejected"
    /\ lastDone.url = "chunk"
    /\ lastDone.ids = SubSeq(LongBatch, BATCH_SIZE + 1, Len(LongBatch))
    /\ DOMAIN cache = {1}
    /\ \E c \in DOMAIN calls :
          calls[c].op = "getTasksBatch" /\ calls[c].status = "rejected"

(***************************************************************************)
(* C12: a body that cannot be parsed fails the call at once                *)
(***************************************************************************)
\* C12: no attempt follows an attempt whose response could not be parsed:
\* no fetchWithRetry invocation that met a malformed body is still waiting
\* or fetching, and one that has returned met it in its only attempt and
\* was rejected.
C12_MalformedNotRetried ==
    /\ \A i \in DOMAIN requests : "malformed" \notin Range(requests[i].causes)
    /\ "malformed" \in Range(lastDone.causes) =>
          /\ lastDone.sent = 1
          /\ lastDone.outcome = "rejected"

(***************************************************************************)
(* C13: the root ids are fetched once                                      *)
(***************************************************************************)
C13_Step ==
    LET n == Len(calls')
    IN  (/\ n = Len(calls) + 1
         /\ calls'[n].op = "getRootTaskIds"
         /\ \E c \in DOMAIN calls :
               calls[c].op = "getRootTaskIds" /\ calls[c].status = "resolved")
        => /\ requests' = requests
           /\ inflightRequests' = inflightRequests
           /\ calls'[n].status = "resolved"
           /\ \A c \in DOMAIN calls :
                 calls[c].op = "getRootTaskIds" /\ calls[c].status = "resolved"
                     => calls'[n].value = calls[c].value

\* C13: once a getRootTaskIds call has resolved, a later getRootTaskIds call
\* starts no request and is answered with the value of the earlier call (the
\* cache is never invalidated in this specification).
C13_RootsCached == [][C13_Step]_vars

(***************************************************************************)
(* C14: the cache answers within the TTL of an entry and not after it      *)
(***************************************************************************)
\* the ids the request that the step started, if any, asks the server for
C14_Asked ==
    IF Len(requests') > Len(requests)
    THEN Range(requests'[Len(requests')].ids) ELSE {}

C14_Step ==
    LET n == Len(calls')
    IN  (n = Len(calls) + 1 /\ calls'[n].op \in {"getTask", "getTasksBatch"}) =>
        /\ \A id \in Range(calls'[n].ids) :
              LET within == id \in DOMAIN cache /\ now - cache[id] <= CACHE_TTL_MS
                  after == id \in DOMAIN cache /\ now - cache[id] > CACHE_TTL_MS
              IN  /\ within =>
                        /\ id \notin C14_Asked
                        /\ queue' = queue /\ pending' = pending
                        /\ id \in DOMAIN cache' /\ cache'[id] = cache[id]
                        /\ calls'[n].op = "getTask" =>
                              /\ calls'[n].status = "resolved"
                              /\ calls'[n].value = TaskValue(id)
                        /\ calls'[n].op = "getTasksBatch" =>
                              \/ /\ calls'[n].status = "resolved"
                                 /\ id \in Range(calls'[n].value.ids)
                              \/ /\ calls'[n].status = "pending"
                                 /\ id \in Range(requests'[Len(requests')].cachedPart)
                  /\ after =>
                        /\ id \notin DOMAIN cache'
                        /\ calls'[n].status = "pending"
                        /\ calls'[n].op = "getTask" =>
                              id \in Range(queue') \/ id \in DOMAIN pending'
                        /\ calls'[n].op = "getTasksBatch" => id \in C14_Asked
        /\ calls'[n].status = "resolved" =>
              \A id \in Range(calls'[n].ids) :
                  id \in DOMAIN cache /\ now - cache[id] <= CACHE_TTL_MS

\* C14: a getTask or getTasksBatch call that reads an entry whose age is at
\* most the TTL is answered with that entry and asks the server nothing for
\* that id; a call that reads an entry whose age exceeds the TTL deletes the
\* entry and fetches the id again; a call answered at once from the cache
\* read only entries within their TTL.  The age is the age at the read.
C14_CacheTtl == [][C14_Step]_vars

\* task 1 was cached at time 0 and read again after more than the TTL: the
\* entry is gone and a second getTask call waits for the next batch
C14_Witness ==
    /\ now > CACHE_TTL_MS
    /\ Len(calls) = 2
    /\ calls[1].op = "getTask" /\ calls[1].status = "resolved"
    /\ calls[2].op = "getTask" /\ calls[2].status = "pending"
    /\ 1 \notin DOMAIN cache
    /\ 1 \in DOMAIN pending

C10_Delays == <<1000, 2000, 4000>>

\* C10: a call is attempted at most 1 + MAX_RETRIES times, waits 1000, 2000
\* and 4000 ms before the retries and not after the last failure, rejects
\* with the error of its last attempt, and stops at the first success.
C10_Retry ==
    /\ \A i \in DOMAIN requests :
          LET r == requests[i]
          IN  /\ r.sent <= MAX_RETRIES + 1
              /\ r.delays = SubSeq(C10_Delays, 1, Len(r.delays))
              /\ r.phase = "fetching" => Len(r.delays) = r.sent - 1
              /\ r.phase = "delaying" => Len(r.delays) = r.sent
    /\ lastDone.outcome = "rejected" =>
          /\ lastDone.sent = MAX_RETRIES + 1
          /\ lastDone.delays = C10_Delays
          /\ lastDone.thrown = MAX_RETRIES
    /\ lastDone.outcome = "resolved" =>
          /\ lastDone.sent \in 1 .. (MAX_RETRIES + 1)
          /\ lastDone.delays = SubSeq(C10_Delays, 1, lastDone.sent - 1)
    /\ \A c \in DedupCalls :
          calls[c].status = "rejected" => calls[c].value = ErrorValue(MAX_RETRIES)

\* a call was rejected after its fourth attempt
C10_Witness ==
    /\ lastDone.outcome = "rejected"
    /\ \E c \in DedupCalls : calls[c].status = "rejected"

(***************************************************************************)
(* The server's graph as the loader sees it: the chain p with the subtasks *)
(* a, b, c and the success callback s                                      *)
(***************************************************************************)
ServerRootIds == server.roots
ServerType(t) == server.type[t]
ServerParent(t) == server.parent[t]
ServerSubtasks(t) == server.subtasks[t]
ServerSuccessCallbacks(t) == server.success[t]
ServerErrorCallbacks(t) == server.error[t]

\* subtask_ids of a task payload: the server may list the subtasks or leave
\* them to the paginated endpoint
SubtaskIdsPayloads(t) == {<<>>, ServerSubtasks(t)}

\* GET /tasks/{id}/subtasks?page=&pageSize=: the ids of one page
PageOf(ids, page, pageSize) ==
    SubSeq(ids, page * pageSize + 1, Min((page + 1) * pageSize, Len(ids)))

MAX_CONCURRENT_LOADS == 5

\* what the callers pass to loadSubtasks
LoaderPages == {0, 1}
PageSizes == {1, 2}
\* what the push messages are about
UpdatedIds == {"p", "a"}
AddedSubtasks == {"c"}
RemovedIds == {"a", "p"}
Statuses == {"completed"}

\* operations started on the store and the loader in SpecStore
MaxOps == 3

\* sockets one client creates
MaxSockets == 7

\* measurement events of one node, and the time its clock runs to
MaxMeasures == 4
MaxMeasureTime == 300

\* calls of loadTaskTree from outside, and the greatest depth they ask for
MaxTreeCalls == 1
MaxTreeDepth == 3

\* fetchRootTasks and loadMore calls of one useTaskDataLazy, and the tasks
\* after the root of the line of callbacks
MaxLazyRuns == 2
LineLength == 11

(***************************************************************************)
(* types/task.ts and types/edge.ts                                         *)
(***************************************************************************)
transformTask(t, subtask_ids) ==
    [id |-> t,
     type |-> ServerType(t),
     status |-> "pending",
     parentId |-> ServerParent(t),
     subtaskIds |-> subtask_ids,
     successCallbackIds |-> ServerSuccessCallbacks(t),
     errorCallbackIds |-> ServerErrorCallbacks(t),
     loadingState |-> "loaded",
     subtasksLoadingState |-> "idle",
     subtasksPagination |->
        [currentPage |-> 0, pageSize |-> 20, totalCount |-> Len(subtask_ids),
         loadedPages |-> {}],
     dimensions |-> NoDimensions]

createEdgeId_Counted(source, target, type) ==
    source \o "->" \o target \o ":" \o type \o "#"
        \o ToString(Cardinality(DOMAIN store.edges))

createEdgeId(source, target, type) == source \o "->" \o target \o ":" \o type

createSuccessEdge(source, target) ==
    [id |-> createEdgeId(source, target, "success"), source |-> source,
     target |-> target, type |-> "success"]

createErrorEdge(source, target) ==
    [id |-> createEdgeId(source, target, "error"), source |-> source,
     target |-> target, type |-> "error"]

createSubtaskEdge(parent, child) ==
    [id |-> createEdgeId(parent, child, "subtask"), source |-> parent,
     target |-> child, type |-> "subtask"]

createSequenceEdge(from, to) ==
    [id |-> createEdgeId(from, to, "sequence"), source |-> from,
     target |-> to, type |-> "sequence"]

(***************************************************************************)
(* stores/graphStore.ts: every action is a function of the store state     *)
(***************************************************************************)
Restrict(f, S) == [x \in S |-> f[x]]
Put(f, k, v) == [x \in DOMAIN f \cup {k} |-> IF x = k THEN v ELSE f[x]]

setTask(st, task) == [st EXCEPT !.tasks = Put(@, task.id, task)]

\* for (const task of tasks) state.tasks[task.id] = task: the last task of
\* an id stays
setTasks(st, list) ==
    LET ids == {list[i].id : i \in DOMAIN list}
        last(id) == CHOOSE i \in DOMAIN list :
                       /\ list[i].id = id
                       /\ \A j \in DOMAIN list : list[j].id = id => j <= i
    IN  [st EXCEPT !.tasks = [id \in DOMAIN @ \cup ids |->
                                 IF id \in ids THEN list[last(id)] ELSE @[id]]]

\* the task is read after it has been deleted
removeTask(st, taskId) ==
    LET deleted == [st EXCEPT !.tasks = Restrict(@, DOMAIN @ \ {taskId}),
                              !.positions = Restrict(@, DOMAIN @ \ {taskId})]
        found == taskId \in DOMAIN deleted.tasks
    IN  IF /\ found
           /\ deleted.tasks[taskId].parentId # Null
           /\ deleted.tasks[taskId].parentId \in DOMAIN deleted.tasks
        THEN [deleted EXCEPT
                 !.tasks[deleted.tasks[taskId].parentId].subtaskIds =
                     SelectSeq(@, LAMBDA id : id # taskId)]
        ELSE deleted

updateTaskStatus_Resetting(st, taskId, status) ==
    IF taskId \in DOMAIN st.tasks
    THEN [st EXCEPT !.tasks[taskId].status = status,
                    !.tasks[taskId].subtasksLoadingState = "idle"]
    ELSE st

updateTaskStatus(st, taskId, status) ==
    IF taskId \in DOMAIN st.tasks
    THEN [st EXCEPT !.tasks[taskId].status = status]
    ELSE st

updateTaskLoadingState(st, taskId, loadingState) ==
    IF taskId \in DOMAIN st.tasks
    THEN [st EXCEPT !.tasks[taskId].loadingState = loadingState]
    ELSE st

updateTaskDimensions(st, taskId, dimensions) ==
    IF taskId \in DOMAIN st.tasks
    THEN [st EXCEPT !.tasks[taskId].dimensions = dimensions]
    ELSE st

updateTaskSubtasksLoadingState(st, taskId, loadingState) ==
    IF taskId \in DOMAIN st.tasks
    THEN [st EXCEPT !.tasks[taskId].subtasksLoadingState = loadingState]
    ELSE st

\* existingIds is built once, before the loop
appendSubtaskIds(st, taskId, subtaskIds, page) ==
    IF taskId \notin DOMAIN st.tasks
    THEN st
    ELSE LET existingIds == Range(st.tasks[taskId].subtaskIds)
         IN  [st EXCEPT
                !.tasks[taskId].subtaskIds =
                    @ \o SelectSeq(subtaskIds, LAMBDA id : id \notin existingIds),
                !.tasks[taskId].subtasksPagination.loadedPages = @ \cup {page}]

setSubtaskPage(st, taskId, page) ==
    IF taskId \in DOMAIN st.tasks
    THEN [st EXCEPT !.tasks[taskId].subtasksPagination.currentPage = page]
    ELSE st

setSubtaskTotalCount(st, taskId, totalCount) ==
    IF taskId \in DOMAIN st.tasks
    THEN [st EXCEPT !.tasks[taskId].subtasksPagination.totalCount = totalCount]
    ELSE st

setEdge(st, edge) == [st EXCEPT !.edges = Put(@, edge.id, edge)]

\* for (const edge of edges) state.edges[edge.id] = edge: the last edge of
\* an id stays
setEdges(st, list) ==
    LET ids == {list[i].id : i \in DOMAIN list}
        last(id) == CHOOSE i \in DOMAIN list :
                       /\ list[i].id = id
                       /\ \A j \in DOMAIN list : list[j].id = id => j <= i
    IN  [st EXCEPT !.edges = [id \in DOMAIN @ \cup ids |->
                                 IF id \in ids THEN list[last(id)] ELSE @[id]]]

removeEdgesForTask(st, taskId) ==
    LET edgeIds == {id \in DOMAIN st.edges :
                       st.edges[id].source = taskId \/ st.edges[id].target = taskId}
    IN  [st EXCEPT !.edges = Restrict(@, DOMAIN @ \ edgeIds)]

setRootTaskIds(st, ids) == [st EXCEPT !.rootTaskIds = ids]

setPosition(st, taskId, position) ==
    [st EXCEPT !.positions = Put(@, taskId, position)]

(***************************************************************************)
(* useProgressiveLoader.  An async function runs to its next await in one  *)
(* step; `running' holds the functions that wait at an await, each with    *)
(* what it read from the `tasks' of the render that created it.            *)
(***************************************************************************)
SubtasksCacheKey(taskId, page) == "subtasks:" \o taskId \o ":" \o ToString(page)
CallbacksCacheKey(taskId) == "callbacks:" \o taskId

Continuation(kind, taskId, page, pageSize, ids, closure, promise) ==
    [kind |-> kind, taskId |-> taskId, page |-> page, pageSize |-> pageSize,
     ids |-> ids, closure |-> closure, promise |-> promise]

\* tasks[taskId] of the closure: <<>> when undefined
ReadTask(taskId) ==
    IF taskId \in DOMAIN store.tasks THEN <<store.tasks[taskId]>> ELSE <<>>

\* outcome: history, how the async body behind the promise ended
LoaderCall(op, key, status, promise) ==
    [op |-> op, key |-> key, status |-> status, promise |-> promise,
     outcome |-> "none"]

\* the callers that hold the promise see it settle
Settle_Rejecting(cs, promise, status, outcome) ==
    [c \in DOMAIN cs |->
        IF cs[c].promise = promise /\ cs[c].status = "pending"
        THEN [cs[c] EXCEPT !.status = IF outcome = "failed" THEN "rejected" ELSE status,
                           !.outcome = outcome]
        ELSE cs[c]]

Settle(cs, promise, status, outcome) ==
    [c \in DOMAIN cs |->
        IF cs[c].promise = promise /\ cs[c].status = "pending"
        THEN [cs[c] EXCEPT !.status = status, !.outcome = outcome]
        ELSE cs[c]]

Op(op, id) == [op |-> op, id |-> id, overwrote |-> FALSE]

Overwrites(list) == \E i \in DOMAIN list : list[i].id \in DOMAIN store.edges

Started(op, id) ==
    /\ opCount < MaxOps
    /\ opCount' = opCount + 1
    /\ lastOp' = Op(op, id)
    /\ UNCHANGED <<apiVars, layoutVars, hookVars>>

\* the store got a new `tasks' object: the hook renders again
NewTasksObject ==
    /\ rendered' = [rendered EXCEPT !.current = FALSE]
    /\ UNCHANGED <<server, processors>>

\* ids.forEach((id) => state.pendingCallbackTaskIds.add(id)): a Set keeps the
\* order of insertion
AddPending_Never(pendingIds, ids) == pendingIds

RECURSIVE AddPending(_, _)
AddPending(pendingIds, ids) ==
    IF ids = <<>> THEN pendingIds
    ELSE AddPending(IF Head(ids) \in Range(pendingIds) THEN pendingIds
                    ELSE Append(pendingIds, Head(ids)),
                    Tail(ids))

\* state.loadingPromises.get(cacheKey)
AlreadyLoading_Never(cacheKey) == FALSE
AlreadyLoading(cacheKey) == cacheKey \in DOMAIN loaderState.loadingPromises

\* loadRoots, up to `await api.getRootTaskIds()'
LoadRoots ==
    LET me == Len(loaderCalls) + 1
    IN  /\ Started("loadRoots", Null)
        /\ running' = running \cup
              {Continuation("rootIds", Null, 0, 0, <<>>, <<>>, me)}
        /\ loaderCalls' = Append(loaderCalls, LoaderCall("loadRoots", "roots", "pending", me))
        /\ UNCHANGED <<store, loaderState, subtaskRequests>>

\* api.getRootTaskIds() returned
RootIdsDone(k) ==
    /\ k.kind = "rootIds"
    /\ lastOp' = Op("loadRoots", Null)
    /\ \/ /\ ServerRootIds # <<>>
          /\ running' = (running \ {k}) \cup
                {[k EXCEPT !.kind = "rootTasks", !.ids = ServerRootIds]}
          /\ UNCHANGED loaderCalls
       \/ /\ running' = running \ {k}
          /\ loaderCalls' = Settle(loaderCalls, k.promise, "rejected", "failed")
    /\ UNCHANGED <<store, loaderState, subtaskRequests, opCount, apiVars, layoutVars, hookVars>>

\* api.getTasksBatch(rootIds) returned
RootTasksDone(k) ==
    /\ k.kind = "rootTasks"
    /\ lastOp' = Op("loadRoots", Null)
    /\ running' = running \ {k}
    /\ \/ \E payload \in SubtaskIdsPayloads(k.ids[1]) :
             LET rootTasks == [i \in DOMAIN k.ids |->
                                  transformTask(k.ids[i], IF i = 1 THEN payload
                                                          ELSE ServerSubtasks(k.ids[i]))]
             IN  /\ store' = setRootTaskIds(setTasks(store, rootTasks), k.ids)
                 /\ loaderState' =
                       [loaderState EXCEPT
                           !.loadedTaskIds = @ \cup Range(k.ids),
                           !.pendingCallbackTaskIds = AddPending(@, k.ids)]
                 /\ loaderCalls' = Settle(loaderCalls, k.promise, "resolved", "loaded")
                 /\ NewTasksObject
       \/ /\ loaderCalls' = Settle(loaderCalls, k.promise, "rejected", "failed")
          /\ UNCHANGED <<store, loaderState, hookVars>>
    /\ UNCHANGED <<subtaskRequests, opCount, apiVars, layoutVars>>

\* the callback ids of currentTask that are not loaded yet
CallbackIds(currentTask, loadedTaskIds) ==
    SelectSeq(currentTask.successCallbackIds \o currentTask.errorCallbackIds,
              LAMBDA id : id \notin loadedTaskIds)

\* the refs and promises a call of loadCallbacks works on
LoaderRefs == [ls |-> loaderState, run |-> running, calls |-> loaderCalls]

\* loadCallbacks(taskId) of the render whose store was `tasks', up to its
\* first await.  When the async body meets no await its `finally' runs before
\* loadingPromises.set, so the key stays.
loadCallbacks(z, tasks, taskId) ==
    LET cacheKey == CallbacksCacheKey(taskId)
        me == Len(z.calls) + 1
        task == IF taskId \in DOMAIN tasks THEN <<tasks[taskId]>> ELSE <<>>
        callbackIds == CallbackIds(task[1], z.ls.loadedTaskIds)
        call(status, promise) ==
            Append(z.calls, LoaderCall("loadCallbacks", cacheKey, status, promise))
    IN  IF cacheKey \in z.ls.loadedCallbacks
        THEN [z EXCEPT !.calls = call("resolved", me)]
        ELSE IF cacheKey \in DOMAIN z.ls.loadingPromises
        THEN LET existingPromise == z.ls.loadingPromises[cacheKey]
             IN  [z EXCEPT !.calls =
                      call(IF \E k \in z.run : k.promise = existingPromise
                           THEN "pending" ELSE "resolved", existingPromise)]
        ELSE IF task = <<>>
        THEN [ls |-> [z.ls EXCEPT !.loadingPromises = Put(@, cacheKey, me)],
              run |-> z.run \cup
                      {Continuation("callbackSelf", taskId, 0, 0, <<>>, <<>>, me)},
              calls |-> call("pending", me)]
        ELSE IF callbackIds = <<>>
        THEN [ls |-> [z.ls EXCEPT !.loadedCallbacks = @ \cup {cacheKey},
                                  !.loadingPromises = Put(@, cacheKey, me)],
              run |-> z.run,
              calls |-> call("resolved", me)]
        ELSE [ls |-> [z.ls EXCEPT !.loadingPromises = Put(@, cacheKey, me)],
              run |-> z.run \cup
                      {Continuation("callbackTasks", taskId, 0, 0, callbackIds, task, me)},
              calls |-> call("pending", me)]

\* a caller of the current render calls loadCallbacks(taskId)
LoadCallbacks(taskId) ==
    LET z == loadCallbacks(LoaderRefs, store.tasks, taskId)
    IN  /\ Started("loadCallbacks", taskId)
        /\ loaderState' = z.ls
        /\ running' = z.run
        /\ loaderCalls' = z.calls
        /\ UNCHANGED <<store, subtaskRequests>>

\* api.getTasksBatch([taskId]) returned; the api.getTask(taskId) that follows
\* is served from the cache that call filled
CallbackSelfDone(k) ==
    LET cacheKey == CallbacksCacheKey(k.taskId)
        finally == Restrict(loaderState.loadingPromises,
                            DOMAIN loaderState.loadingPromises \ {cacheKey})
    IN  /\ k.kind = "callbackSelf"
        /\ lastOp' = Op("loadCallbacks", k.taskId)
        /\ UNCHANGED <<subtaskRequests, opCount, apiVars, layoutVars>>
        /\ \/ \E payload \in SubtaskIdsPayloads(k.taskId) :
                 LET fetchedTask == transformTask(k.taskId, payload)
                     loaded == loaderState.loadedTaskIds \cup {k.taskId}
                     callbackIds == CallbackIds(fetchedTask, loaded)
                 IN  /\ store' = setTask(store, fetchedTask)
                     /\ NewTasksObject
                     /\ IF callbackIds = <<>>
                        THEN /\ loaderState' =
                                   [loaderState EXCEPT
                                       !.loadedTaskIds = loaded,
                                       !.loadedCallbacks = @ \cup {cacheKey},
                                       !.loadingPromises = finally]
                             /\ running' = running \ {k}
                             /\ loaderCalls' = Settle(loaderCalls, k.promise, "resolved", "loaded")
                        ELSE /\ loaderState' =
                                   [loaderState EXCEPT !.loadedTaskIds = loaded]
                             /\ running' = (running \ {k}) \cup
                                   {[k EXCEPT !.kind = "callbackTasks",
                                              !.ids = callbackIds,
                                              !.closure = <<fetchedTask>>]}
                             /\ UNCHANGED loaderCalls
           \/ /\ loaderState' = [loaderState EXCEPT !.loadingPromises = finally]
              /\ running' = running \ {k}
              /\ loaderCalls' = Settle(loaderCalls, k.promise, "resolved", "failed")
              /\ UNCHANGED <<store, hookVars>>

\* api.getTasksBatch(callbackIds) returned
CallbackTasksDone(k) ==
    LET cacheKey == CallbacksCacheKey(k.taskId)
        finally == Restrict(loaderState.loadingPromises,
                            DOMAIN loaderState.loadingPromises \ {cacheKey})
        currentTask == k.closure[1]
        callbackTasks == [i \in DOMAIN k.ids |->
                             transformTask(k.ids[i], ServerSubtasks(k.ids[i]))]
        edges == [i \in DOMAIN currentTask.successCallbackIds |->
                     createSuccessEdge(k.taskId, currentTask.successCallbackIds[i])]
                 \o [i \in DOMAIN currentTask.errorCallbackIds |->
                     createErrorEdge(k.taskId, currentTask.errorCallbackIds[i])]
    IN  /\ k.kind = "callbackTasks"
        /\ running' = running \ {k}
        /\ UNCHANGED <<subtaskRequests, opCount, apiVars, layoutVars>>
        /\ \/ /\ store' = setEdges(setTasks(store, callbackTasks), edges)
              /\ NewTasksObject
              /\ loaderCalls' = Settle(loaderCalls, k.promise, "resolved", "loaded")
              /\ loaderState' =
                    [loaderState EXCEPT
                        !.loadedTaskIds = @ \cup Range(k.ids),
                        !.pendingCallbackTaskIds = AddPending(@, k.ids),
                        !.loadedCallbacks = @ \cup {cacheKey},
                        !.loadingPromises = finally]
              /\ lastOp' = [Op("loadCallbacks", k.taskId) EXCEPT
                               !.overwrote = Overwrites(edges)]
           \/ /\ loaderState' = [loaderState EXCEPT !.loadingPromises = finally]
              /\ loaderCalls' = Settle(loaderCalls, k.promise, "resolved", "failed")
              /\ lastOp' = Op("loadCallbacks", k.taskId)
              /\ UNCHANGED <<store, hookVars>>

\* loadSubtasks(taskId, page, pageSize), up to `await api.getTaskSubtasks'
LoadSubtasks(taskId, page, pageSize) ==
    LET cacheKey == SubtasksCacheKey(taskId, page)
        me == Len(loaderCalls) + 1
        call(status, promise) ==
            Append(loaderCalls, LoaderCall("loadSubtasks", cacheKey, status, promise))
    IN  /\ Started("loadSubtasks", taskId)
        /\ IF cacheKey \in loaderState.loadedSubtasks
           THEN /\ loaderCalls' = call("resolved", me)
                /\ UNCHANGED <<store, loaderState, running, subtaskRequests>>
           ELSE IF AlreadyLoading(cacheKey)
           THEN /\ loaderCalls' = call("pending", loaderState.loadingPromises[cacheKey])
                /\ UNCHANGED <<store, loaderState, running, subtaskRequests>>
           ELSE /\ store' = updateTaskSubtasksLoadingState(store, taskId, "loading")
                /\ subtaskRequests' =
                      Append(subtaskRequests,
                             [taskId |-> taskId, page |-> page, pageSize |-> pageSize])
                /\ running' = running \cup
                      {Continuation("subtasksPage", taskId, page, pageSize, <<>>,
                                    ReadTask(taskId), me)}
                /\ loaderState' = [loaderState EXCEPT
                                      !.loadingPromises = Put(@, cacheKey, me)]
                /\ loaderCalls' = call("pending", me)

\* the end of the async body of loadSubtasks: catch, finally
SubtasksEnd(k, st, loaded) ==
    LET cacheKey == SubtasksCacheKey(k.taskId, k.page)
    IN  /\ store' = st
        /\ loaderState' =
              [loaderState EXCEPT
                  !.loadedTaskIds = @ \cup (IF loaded THEN Range(k.ids) ELSE {}),
                  !.loadedSubtasks = @ \cup (IF loaded THEN {cacheKey} ELSE {}),
                  !.loadingPromises = Restrict(@, DOMAIN @ \ {cacheKey})]
        /\ running' = running \ {k}
        /\ loaderCalls' = Settle(loaderCalls, k.promise, "resolved",
                                 IF loaded THEN "loaded" ELSE "failed")

\* api.getTaskSubtasks(taskId, {page, pageSize}) returned
SubtasksPageDone(k) ==
    LET taskIds == PageOf(ServerSubtasks(k.taskId), k.page, k.pageSize)
        counted == setSubtaskTotalCount(store, k.taskId, Len(ServerSubtasks(k.taskId)))
    IN  /\ k.kind = "subtasksPage"
        /\ lastOp' = Op("loadSubtasks", k.taskId)
        /\ UNCHANGED <<subtaskRequests, opCount, apiVars, layoutVars, hookVars>>
        /\ \/ /\ taskIds = <<>>
              /\ SubtasksEnd(k, updateTaskSubtasksLoadingState(counted, k.taskId, "loaded"),
                             TRUE)
           \/ /\ taskIds # <<>>
              /\ store' = counted
              /\ running' = (running \ {k}) \cup
                    {[k EXCEPT !.kind = "subtaskDetails", !.ids = taskIds]}
              /\ UNCHANGED <<loaderState, loaderCalls>>
           \/ SubtasksEnd(k, updateTaskSubtasksLoadingState(store, k.taskId, "error"),
                          FALSE)

\* the edges loadSubtasks creates for one page; `task' is tasks[taskId] of
\* the closure
SubtaskEdges(k) ==
    LET task == k.closure
        startIdx == k.page * k.pageSize
        subtaskEdges == [i \in DOMAIN k.ids |-> createSubtaskEdge(k.taskId, k.ids[i])]
        sequenceEdges == [i \in 1 .. (Len(k.ids) - 1) |->
                             createSequenceEdge(k.ids[i], k.ids[i + 1])]
        previous ==
            IF k.page > 0 /\ Len(task[1].subtaskIds) > startIdx /\ startIdx - 1 >= 0
            THEN <<createSequenceEdge(task[1].subtaskIds[startIdx], k.ids[1])>>
            ELSE <<>>
    IN  IF task # <<>> /\ task[1].type = "chain"
        THEN subtaskEdges \o sequenceEdges \o previous
        ELSE subtaskEdges

\* api.getTasksBatch(response.taskIds) returned.  The subtasks of the server's
\* graph have no callbacks, so none is queued for callback loading.
SubtaskDetailsDone(k) ==
    LET subtasksWithParent ==
            [i \in DOMAIN k.ids |->
                [transformTask(k.ids[i], ServerSubtasks(k.ids[i])) EXCEPT
                    !.parentId = k.taskId]]
        appended == appendSubtaskIds(setTasks(store, subtasksWithParent),
                                     k.taskId, k.ids, k.page)
        edges == SubtaskEdges(k)
    IN  /\ k.kind = "subtaskDetails"
        /\ UNCHANGED <<subtaskRequests, opCount, apiVars, layoutVars>>
        /\ \/ /\ SubtasksEnd(k, updateTaskSubtasksLoadingState(
                                    setEdges(appended, edges), k.taskId, "loaded"),
                             TRUE)
              /\ NewTasksObject
              /\ lastOp' = [Op("loadSubtasks", k.taskId) EXCEPT
                               !.overwrote = Overwrites(edges)]
           \/ /\ SubtasksEnd(k, updateTaskSubtasksLoadingState(store, k.taskId, "error"),
                             FALSE)
              /\ lastOp' = Op("loadSubtasks", k.taskId)
              /\ UNCHANGED hookVars

(***************************************************************************)
(* The BFS processor of the pending callbacks: the effect that runs after  *)
(* a render in which loadCallbacks changed, and the processPending loops   *)
(* it started.  A loop keeps the loadCallbacks of the render that started  *)
(* it.                                                                     *)
(***************************************************************************)
\* batch.map((id) => loadCallbacks(id))
RECURSIVE LoadBatch(_, _, _)
LoadBatch(z, tasks, batch) ==
    IF batch = <<>> THEN z
    ELSE LoadBatch(loadCallbacks(z, tasks, Head(batch)), tasks, Tail(batch))

\* one turn of the while loop of processPending, up to `await Promise.all'
ProcessRound(id, tasks) ==
    LET pendingIds == loaderState.pendingCallbackTaskIds
        batch == SubSeq(pendingIds, 1, Min(MAX_CONCURRENT_LOADS, Len(pendingIds)))
        rest == SubSeq(pendingIds, Len(batch) + 1, Len(pendingIds))
        z == LoadBatch([LoaderRefs EXCEPT !.ls.pendingCallbackTaskIds = rest],
                       tasks, batch)
        promises == {z.calls[c].promise : c \in (Len(loaderCalls) + 1) .. Len(z.calls)}
    IN  /\ loaderState' = z.ls
        /\ running' = z.run
        /\ loaderCalls' = z.calls
        /\ processors' = {p \in processors : p.id # id} \cup
              {[id |-> id, phase |-> "round", awaiting |-> promises, tasks |-> tasks]}

\* the render after the store's `tasks' changed and the effect after it
Effect ==
    /\ ~rendered.current \/ rendered.tasks # store.tasks
    /\ Len(loaderState.pendingCallbackTaskIds) > 0 => Cardinality(processors) < MaxLoops
    /\ rendered' = [tasks |-> store.tasks, current |-> TRUE]
    /\ lastOp' = Op("processPending", Null)
    /\ IF Len(loaderState.pendingCallbackTaskIds) > 0
       THEN ProcessRound(Len(loaderCalls) + 1, store.tasks)
       ELSE UNCHANGED <<loaderState, running, loaderCalls, processors>>
    /\ UNCHANGED <<store, subtaskRequests, opCount, server, apiVars, layoutVars>>

\* Promise.all(...) resolved: every load of the round settled; the loop waits
\* CALLBACK_LOAD_DELAY_MS
RoundDone(p) ==
    /\ p.phase = "round"
    /\ \A k \in running : k.promise \notin p.awaiting
    /\ processors' = (processors \ {p}) \cup {[p EXCEPT !.phase = "delay"]}
    /\ lastOp' = Op("processPending", Null)
    /\ UNCHANGED <<store, loaderState, running, loaderCalls, subtaskRequests, opCount,
                   rendered, server, apiVars, layoutVars>>

\* the delay elapsed: the loop tests pendingCallbackTaskIds.size again
DelayDone(p) ==
    /\ p.phase = "delay"
    /\ lastOp' = Op("processPending", Null)
    /\ IF Len(loaderState.pendingCallbackTaskIds) > 0
       THEN ProcessRound(p.id, p.tasks)
       ELSE /\ processors' = processors \ {p}
            /\ UNCHANGED <<loaderState, running, loaderCalls>>
    /\ UNCHANGED <<store, subtaskRequests, opCount, rendered, server, apiVars, layoutVars>>

(***************************************************************************)
(* useRealtimeUpdates: the handlers of the push messages.  A handler whose *)
(* `if (tasks[...])' fails returns with nothing done.                      *)
(***************************************************************************)
\* task_status_changed
handleStatusChange(taskId, status) ==
    /\ Started("task_status_changed", taskId)
    /\ store' = IF taskId \in DOMAIN store.tasks
                THEN updateTaskStatus(store, taskId, status)
                ELSE store
    /\ UNCHANGED <<loaderState, running, loaderCalls, subtaskRequests>>

\* task_updated with the test of tasks[taskId] left out
handleTaskUpdate_Unguarded(taskId) ==
    LET k == Continuation("taskUpdate", taskId, 0, 0, <<>>, <<>>, 0)
    IN  /\ k \notin running
        /\ Started("task_updated", taskId)
        /\ running' = running \cup {k}
        /\ UNCHANGED <<store, loaderState, loaderCalls, subtaskRequests>>

\* task_updated, up to `await api.getTasksBatch([taskId])'
handleTaskUpdate(taskId) ==
    LET k == Continuation("taskUpdate", taskId, 0, 0, <<>>, <<>>, 0)
    IN  /\ k \notin running
        /\ Started("task_updated", taskId)
        /\ running' = IF taskId \in DOMAIN store.tasks THEN running \cup {k} ELSE running
        /\ UNCHANGED <<store, loaderState, loaderCalls, subtaskRequests>>

\* task_updated: api.getTasksBatch([taskId]) returned
TaskUpdateDone(k) ==
    /\ k.kind = "taskUpdate"
    /\ lastOp' = Op("task_updated", k.taskId)
    /\ running' = running \ {k}
    /\ \/ \E payload \in SubtaskIdsPayloads(k.taskId) :
             /\ store' = setTask(store, transformTask(k.taskId, payload))
             /\ NewTasksObject
       \/ UNCHANGED <<store, hookVars>>
    /\ UNCHANGED <<loaderState, loaderCalls, subtaskRequests, opCount, apiVars, layoutVars>>

\* subtask_added, up to `await api.getTasksBatch([taskId])'
handleSubtaskAdded(taskId, parentId) ==
    LET k == Continuation("subtaskAdded", taskId, 0, 0, <<parentId>>,
                          ReadTask(parentId), 0)
    IN  /\ k \notin running
        /\ Started("subtask_added", taskId)
        /\ running' = IF parentId \in DOMAIN store.tasks THEN running \cup {k} ELSE running
        /\ UNCHANGED <<store, loaderState, loaderCalls, subtaskRequests>>

\* subtask_added: api.getTasksBatch([taskId]) returned
SubtaskAddedDone(k) ==
    LET parentId == k.ids[1]
        parent == k.closure[1]
        newSubtask == transformTask(k.taskId, ServerSubtasks(k.taskId))
    IN  /\ k.kind = "subtaskAdded"
        /\ lastOp' = Op("subtask_added", k.taskId)
        /\ running' = running \ {k}
        /\ \/ /\ store' = appendSubtaskIds(
                              setTask(store, [newSubtask EXCEPT !.parentId = parentId]),
                              parentId, <<k.taskId>>,
                              parent.subtasksPagination.currentPage)
              /\ NewTasksObject
           \/ UNCHANGED <<store, hookVars>>
        /\ UNCHANGED <<loaderState, loaderCalls, subtaskRequests, opCount, apiVars, layoutVars>>

\* task_removed
handleTaskRemoved(taskId) ==
    /\ Started("task_removed", taskId)
    /\ store' = IF taskId \in DOMAIN store.tasks
                THEN removeTask(removeEdgesForTask(store, taskId), taskId)
                ELSE store
    /\ UNCHANGED <<loaderState, running, loaderCalls, subtaskRequests>>

(***************************************************************************)
(* What the graph view does with the store                                 *)
(***************************************************************************)
\* a pagination control of a container
SetSubtaskPage(taskId, page) ==
    /\ taskId \in DOMAIN store.tasks
    /\ store.tasks[taskId].type # "task"
    /\ store.tasks[taskId].subtasksPagination.currentPage # page
    /\ Started("setSubtaskPage", taskId)
    /\ store' = setSubtaskPage(store, taskId, page)
    /\ UNCHANGED <<loaderState, running, loaderCalls, subtaskRequests>>

\* the layout places a task
SetPosition(taskId) ==
    /\ taskId \in DOMAIN store.tasks
    /\ taskId \notin DOMAIN store.positions
    /\ Started("setPosition", taskId)
    /\ store' = setPosition(store, taskId, [x |-> 0, y |-> 0])
    /\ UNCHANGED <<loaderState, running, loaderCalls, subtaskRequests>>

(***************************************************************************)
(* SpecStore: one loader, the push messages and the view on the store      *)
(***************************************************************************)
LoaderStart ==
    \/ LoadRoots
    \/ LoadCallbacks("p")
    \/ \E page \in LoaderPages, pageSize \in PageSizes : LoadSubtasks("p", page, pageSize)

LoaderResume ==
    \/ \E k \in running : RootIdsDone(k)
    \/ \E k \in running : RootTasksDone(k)
    \/ \E k \in running : CallbackSelfDone(k)
    \/ \E k \in running : CallbackTasksDone(k)
    \/ \E k \in running : SubtasksPageDone(k)
    \/ \E k \in running : SubtaskDetailsDone(k)

PushMessage ==
    \/ \E taskId \in UpdatedIds, status \in Statuses : handleStatusChange(taskId, status)
    \/ \E taskId \in UpdatedIds : handleTaskUpdate(taskId)
    \/ \E taskId \in AddedSubtasks : handleSubtaskAdded(taskId, ServerParent(taskId))
    \/ \E taskId \in RemovedIds : handleTaskRemoved(taskId)

HandlerResume ==
    \/ \E k \in running : TaskUpdateDone(k)
    \/ \E k \in running : SubtaskAddedDone(k)

View ==
    \/ \E page \in LoaderPages : SetSubtaskPage("p", page)
    \/ \E taskId \in RemovedIds : SetPosition(taskId)

StoreNext == LoaderStart \/ LoaderResume \/ PushMessage \/ HandlerResume \/ View

SpecStore == ClientInit /\ [][StoreNext]_vars

\* the loader alone
LoaderNext == LoaderStart \/ LoaderResume

SpecLoader == ClientInit /\ [][LoaderNext]_vars

(***************************************************************************)
(* SpecFrontier: the viewer mounts over a wide callback graph, loads the   *)
(* roots once and leaves the callbacks to the BFS processor                *)
(***************************************************************************)
FrontierInit == ApiInit /\ StoreInitOn(WideGraph) /\ LayoutIdle

\* WorkflowViewer: the effect that calls loadRoots() when it mounts
Mount == loaderCalls = <<>> /\ LoadRoots

RootsResume ==
    \/ \E k \in running : RootIdsDone(k)
    \/ \E k \in running : RootTasksDone(k)

CallbacksResume ==
    \/ \E k \in running : CallbackSelfDone(k)
    \/ \E k \in running : CallbackTasksDone(k)

ProcessorResume ==
    \/ \E p \in processors : RoundDone(p)
    \/ \E p \in processors : DelayDone(p)

FrontierNext == Mount \/ RootsResume \/ CallbacksResume \/ Effect \/ ProcessorResume

SpecFrontier == FrontierInit /\ [][FrontierNext]_vars

(***************************************************************************)
(* SpecRounds: the same over a callback graph with a shared callback and a *)
(* cycle                                                                   *)
(***************************************************************************)
RoundsInit == ApiInit /\ StoreInitOn(CycleGraph) /\ LayoutIdle

SpecRounds == RoundsInit /\ [][FrontierNext]_vars

\* every request settles, every timer fires, React renders
FairSpecRounds ==
    /\ SpecRounds
    /\ WF_vars(Mount) /\ WF_vars(RootsResume) /\ WF_vars(CallbacksResume)
    /\ WF_vars(Effect) /\ WF_vars(ProcessorResume)

(***************************************************************************)
(* SpecExpand: the same, and the user expands the chain p once             *)
(***************************************************************************)
\* ChainNode: the chain p is expanded
ExpandChain ==
    /\ "p" \in DOMAIN store.tasks
    /\ subtaskRequests = <<>>
    /\ LoadSubtasks("p", 0, 2)

SubtasksResume ==
    \/ \E k \in running : SubtasksPageDone(k)
    \/ \E k \in running : SubtaskDetailsDone(k)

ExpandNext == FrontierNext \/ ExpandChain \/ SubtasksResume

SpecExpand == RoundsInit /\ [][ExpandNext]_vars

(***************************************************************************)
(* SpecPatch: the granular task updates of the store, called with ids in   *)
(* the store and with an id that is not                                    *)
(***************************************************************************)
PatchIds == {"p", "s", "a"}
PatchStatuses == {"running", "completed", "failed"}
LoadingStates == {"idle", "loading", "loaded", "error"}
PatchDimensions == {<<[width |-> 320, height |-> 240]>>, <<[width |-> 200, height |-> 80]>>}

\* the store holds the chain p, its callback s, their edge and a position
PatchInit ==
    /\ ApiInit
    /\ LayoutIdle
    /\ server = ChainGraph
    /\ rendered = FirstRender
    /\ processors = {}
    /\ store = setPosition(
                  setEdge(
                     setRootTaskIds(
                        setTasks(initialState,
                                 <<transformTask("p", ServerSubtasks("p")),
                                   transformTask("s", <<>>)>>),
                        <<"p">>),
                     createSuccessEdge("p", "s")),
                  "p", [x |-> 0, y |-> 0])
    /\ loaderState = LoaderInit
    /\ running = {}
    /\ loaderCalls = <<>>
    /\ subtaskRequests = <<>>
    /\ lastOp = NoOp
    /\ opCount = 0

\* a caller of state.actions
Patch(op, taskId, st) ==
    /\ Started(op, taskId)
    /\ store' = st
    /\ UNCHANGED <<loaderState, running, loaderCalls, subtaskRequests>>

PatchNext ==
    \/ \E taskId \in PatchIds, status \in PatchStatuses :
          Patch("updateTaskStatus", taskId, updateTaskStatus(store, taskId, status))
    \/ \E taskId \in PatchIds, loadingState \in LoadingStates :
          Patch("updateTaskLoadingState", taskId,
                updateTaskLoadingState(store, taskId, loadingState))
    \/ \E taskId \in PatchIds, loadingState \in LoadingStates :
          Patch("updateTaskSubtasksLoadingState", taskId,
                updateTaskSubtasksLoadingState(store, taskId, loadingState))
    \/ \E taskId \in PatchIds, dimensions \in PatchDimensions :
          Patch("updateTaskDimensions", taskId,
                updateTaskDimensions(store, taskId, dimensions))

SpecPatch == PatchInit /\ [][PatchNext]_vars

(***************************************************************************)
(* WebSocketClient (api/websocket.ts)                                      *)
(***************************************************************************)
RECONNECT_DELAY_MS == 1000
MAX_RECONNECT_DELAY_MS == 30000

\* this.ws?.readyState === WebSocket.OPEN
isConnected(c, socks) == c.ws # 0 /\ socks[c.ws] = "OPEN"

\* connect(): a socket that is open is kept; otherwise a new WebSocket takes
\* the place of this.ws, and the socket it replaces keeps its handlers
connect(c, socks) ==
    IF isConnected(c, socks)
    THEN [client |-> c, sockets |-> socks]
    ELSE [client |-> [c EXCEPT !.isIntentionallyClosed = FALSE,
                               !.ws = Len(socks) + 1],
          sockets |-> Append(socks, "CONNECTING")]

ReconnectDelay(attempts) ==
    Min(RECONNECT_DELAY_MS * Pow2(attempts), MAX_RECONNECT_DELAY_MS)

scheduleReconnect(c) ==
    IF c.reconnectTimer # 0
    THEN c
    ELSE [c EXCEPT !.reconnectTimer = ReconnectDelay(c.reconnectAttempts)]

\* clearInterval stops the interval this.heartbeatTimer names; `intervals'
\* counts the setInterval timers that run
clearTimers(c) ==
    [c EXCEPT !.reconnectTimer = 0, !.heartbeatTimer = FALSE,
              !.intervals = IF c.heartbeatTimer THEN @ - 1 ELSE @]

\* useRealtimeUpdates: the subscription effect runs (again) and calls
\* wsClient.connect()
Connect ==
    LET r == connect(wsClient, sockets)
    IN  /\ Len(r.sockets) <= MaxSockets
        /\ wsClient' = r.client
        /\ sockets' = r.sockets
        /\ UNCHANGED <<reconnects, apiVars, storeVars, graphVars, measureVars, treeVars, lazyVars,
                 viewVars>>

\* ws.onopen of socket i
OnOpen(i) ==
    /\ sockets[i] = "CONNECTING"
    /\ sockets' = [sockets EXCEPT ![i] = "OPEN"]
    /\ wsClient' = [wsClient EXCEPT !.reconnectAttempts = 0, !.heartbeatTimer = TRUE,
                                    !.intervals = @ + 1]
    /\ reconnects' = 0
    /\ UNCHANGED <<apiVars, storeVars, graphVars, measureVars, treeVars, lazyVars, viewVars>>

\* ws.onclose of socket i: the connection failed or was lost
OnClose(i) ==
    /\ sockets[i] \in {"CONNECTING", "OPEN", "CLOSING"}
    /\ sockets' = [sockets EXCEPT ![i] = "CLOSED"]
    /\ wsClient' = IF wsClient.isIntentionallyClosed
                   THEN clearTimers(wsClient)
                   ELSE scheduleReconnect(clearTimers(wsClient))
    /\ UNCHANGED <<reconnects, apiVars, storeVars, graphVars, measureVars, treeVars, lazyVars,
                 viewVars>>

\* the callback of the reconnect timer
ReconnectTimerFires ==
    LET c == [wsClient EXCEPT !.reconnectTimer = 0,
                              !.reconnectAttempts = @ + 1]
        r == connect(c, sockets)
    IN  /\ wsClient.reconnectTimer # 0
        /\ Len(r.sockets) <= MaxSockets
        /\ wsClient' = r.client
        /\ sockets' = r.sockets
        /\ reconnects' = IF isConnected(c, sockets) THEN reconnects ELSE reconnects + 1
        /\ UNCHANGED <<apiVars, storeVars, graphVars, measureVars, treeVars, lazyVars, viewVars>>

SocketNext ==
    \/ Connect
    \/ \E i \in DOMAIN sockets : OnOpen(i)
    \/ \E i \in DOMAIN sockets : OnClose(i)
    \/ ReconnectTimerFires

SpecSocket == ClientInit /\ [][SocketNext]_vars


(***************************************************************************)
(* useDimensionCalculator (hooks/useDimensionCalculator.ts) of the node of *)
(* task p.  A timeout runs when it is due: no measurement is handled at    *)
(* an instant at which a timeout is due and has not run.                   *)
(***************************************************************************)
DEFAULT_DEBOUNCE_MS == 100
DEFAULT_MIN_WIDTH == 100
DEFAULT_MIN_HEIGHT == 40

MeasuredTask == "p"

\* contentRect / getBoundingClientRect of the node
MeasuredRects == {[width |-> 50, height |-> 20], [width |-> 150, height |-> 60],
                  [width |-> 150, height |-> 20]}

\* the clock advances by one of these
MeasureSteps == {DEFAULT_DEBOUNCE_MS \div 2, DEFAULT_DEBOUNCE_MS}

\* clearTimeout(debounceTimer.current)
clearDebounce(m) ==
    [m EXCEPT !.timeouts = {t \in @ : t.id # m.debounceTimer}]

\* updateDimensionsDebounced without the clearTimeout of the earlier timer
updateDimensionsDebounced_Stacking(m, width, height) ==
    LET id == m.calls + 1
    IN  [m EXCEPT
           !.calls = id,
           !.debounceTimer = id,
           !.timeouts = @ \cup {[id |-> id, due |-> now + DEFAULT_DEBOUNCE_MS,
                                 width |-> width, height |-> height]}]

updateDimensionsDebounced(m, width, height) ==
    LET id == m.calls + 1
    IN  [clearDebounce(m) EXCEPT
           !.calls = id,
           !.debounceTimer = id,
           !.timeouts = @ \cup {[id |-> id, due |-> now + DEFAULT_DEBOUNCE_MS,
                                 width |-> width, height |-> height]}]

\* the history of the burst: an event less than one window after the last
\* one continues its burst, any other event starts a burst
Measured(rect) ==
    bursts' = IF bursts.events > 0 /\ now - bursts.lastAt < DEFAULT_DEBOUNCE_MS
              THEN [bursts EXCEPT !.events = @ + 1, !.lastAt = now,
                                  !.width = rect.width, !.height = rect.height]
              ELSE [events |-> 1, lastAt |-> now, width |-> rect.width,
                    height |-> rect.height, writes |-> 0]

NoneDue == \A t \in measure.timeouts : t.due > now

MeasureFrame ==
    UNCHANGED <<storeVars, graphVars, socketVars, treeVars, lazyVars,
                 viewVars, cache, queue, pending, timer,
                inflightRequests, requests, calls, window, lastDone, invalidated>>

\* one measurement reaches updateDimensionsDebounced
Measurement(rect) ==
    /\ measure.calls < MaxMeasures
    /\ NoneDue
    /\ measure' = updateDimensionsDebounced(measure, rect.width, rect.height)
    /\ Measured(rect)
    /\ UNCHANGED now
    /\ MeasureFrame

\* the effect: the observer is set up and the node measured once
MountNode(rect) ==
    /\ measure.mounted = "no"
    /\ \E m \in {[measure EXCEPT !.mounted = "yes"]} :
          measure' = updateDimensionsDebounced(m, rect.width, rect.height)
    /\ Measured(rect)
    /\ UNCHANGED now
    /\ MeasureFrame

\* the ResizeObserver callback
Resized(rect) == measure.mounted = "yes" /\ Measurement(rect)

\* recalculate(): nodeRef.current is set while the node is mounted
Recalculate(rect) == measure.mounted = "yes" /\ Measurement(rect)

\* the cleanup of the effect
UnmountNode ==
    /\ measure.mounted = "yes"
    /\ measure' = [clearDebounce(measure) EXCEPT !.mounted = "gone"]
    /\ UNCHANGED <<bursts, now>>
    /\ MeasureFrame

\* the callback of a debounce timeout
DebounceFires(t) ==
    LET finalWidth == Max(t.width, DEFAULT_MIN_WIDTH)
        finalHeight == Max(t.height, DEFAULT_MIN_HEIGHT)
    IN  /\ t.due <= now
        /\ measure' = [measure EXCEPT !.timeouts = @ \ {t}]
        /\ store' = updateTaskDimensions(store, MeasuredTask,
                        <<[width |-> finalWidth, height |-> finalHeight,
                           calculatedAt |-> now]>>)
        /\ bursts' = [bursts EXCEPT !.writes = @ + 1]
        /\ UNCHANGED <<loaderState, running, loaderCalls, subtaskRequests, lastOp,
                       opCount, hookVars, graphVars, socketVars, treeVars, lazyVars, viewVars,
                       apiVars>>

\* time passes, up to the next timeout that is due
MeasureClock(d) ==
    /\ now + d <= MaxMeasureTime
    /\ \A t \in measure.timeouts : now + d <= t.due
    /\ now' = now + d
    /\ UNCHANGED measureVars
    /\ MeasureFrame

MeasureNext ==
    \/ \E rect \in MeasuredRects : MountNode(rect)
    \/ \E rect \in MeasuredRects : Resized(rect)
    \/ \E rect \in MeasuredRects : Recalculate(rect)
    \/ UnmountNode
    \/ \E t \in measure.timeouts : DebounceFires(t)
    \/ \E d \in MeasureSteps : MeasureClock(d)

SpecMeasure == PatchInit /\ [][MeasureNext]_vars

(***************************************************************************)
(* useProgressiveLoader.loadTaskTree.  A call is a frame in `running' while *)
(* it waits at one of its three awaits; loadCallbacks and loadSubtasks are *)
(* the loader's own, their fetches end through CallbackSelfDone,           *)
(* CallbackTasksDone, SubtasksPageDone and SubtaskDetailsDone.             *)
(***************************************************************************)
DEFAULT_PAGE_SIZE == 20

TreeIds == {"r", "k1", "k2", "k3", "k4", "k5", "k6", "m1", "m2", "n1", "s"}

\* a chain of six whose first subtask is a chain of two whose first subtask
\* is a chain of one
TreeGraph ==
    [roots |-> <<"r">>,
     type |-> [t \in TreeIds |-> IF t \in {"r", "k1", "m1"} THEN "chain" ELSE "task"],
     parent |-> [t \in TreeIds |->
                    IF t \in {"k1", "k2", "k3", "k4", "k5", "k6"} THEN "r"
                    ELSE IF t \in {"m1", "m2"} THEN "k1"
                    ELSE IF t = "n1" THEN "m1" ELSE Null],
     subtasks |-> [t \in TreeIds |->
                    IF t = "r" THEN <<"k1", "k2", "k3", "k4", "k5", "k6">>
                    ELSE IF t = "k1" THEN <<"m1", "m2">>
                    ELSE IF t = "m1" THEN <<"n1">> ELSE <<>>],
     success |-> [t \in TreeIds |-> IF t = "r" THEN <<"s">> ELSE <<>>],
     error |-> [t \in TreeIds |-> <<>>]]

LoaderAll == [ls |-> loaderState, run |-> running, calls |-> loaderCalls,
              st |-> store, reqs |-> subtaskRequests]

\* loadCallbacks on the refs, the store untouched
WithCallbacks(z, tasks, taskId) ==
    LET y == loadCallbacks([ls |-> z.ls, run |-> z.run, calls |-> z.calls], tasks, taskId)
    IN  [z EXCEPT !.ls = y.ls, !.run = y.run, !.calls = y.calls]

\* loadSubtasks up to its first await; `tasks' is the map of the render
loadSubtasks(z, tasks, taskId, page, pageSize) ==
    LET cacheKey == SubtasksCacheKey(taskId, page)
        me == Len(z.calls) + 1
        call(status, promise) ==
            Append(z.calls, LoaderCall("loadSubtasks", cacheKey, status, promise))
    IN  IF cacheKey \in z.ls.loadedSubtasks
        THEN [z EXCEPT !.calls = call("resolved", me)]
        ELSE IF cacheKey \in DOMAIN z.ls.loadingPromises
        THEN [z EXCEPT !.calls = call("pending", z.ls.loadingPromises[cacheKey])]
        ELSE [ls |-> [z.ls EXCEPT !.loadingPromises = Put(@, cacheKey, me)],
              run |-> z.run \cup
                      {Continuation("subtasksPage", taskId, page, pageSize, <<>>,
                                    IF taskId \in DOMAIN tasks
                                    THEN <<tasks[taskId]>> ELSE <<>>, me)},
              calls |-> call("pending", me),
              st |-> updateTaskSubtasksLoadingState(z.st, taskId, "loading"),
              reqs |-> Append(z.reqs, [taskId |-> taskId, page |-> page,
                                       pageSize |-> pageSize])]

\* a call of loadTaskTree at an await: `awaits' is the loader promise it
\* waits for, `frame' names the call, `parent' the call that started it
TreeFrame(kind, taskId, depth, awaits, frame, parent) ==
    [kind |-> kind, taskId |-> taskId, page |-> 0, pageSize |-> 0, ids |-> <<>>,
     closure |-> <<>>, promise |-> 0, depth |-> depth, awaits |-> awaits,
     frame |-> frame, parent |-> parent]

TreeKinds == {"treeCallbacks", "treeSubtasks", "treeChildren"}

TreeFrames == {k \in running : k.kind \in TreeKinds}

\* loadTaskTree with the test of the depth left out
loadTaskTree_Unbounded(z, tasks, taskId, depth, parent) ==
    LET y == WithCallbacks(z, tasks, taskId)
        me == Len(y.calls)
    IN  [y EXCEPT !.run = @ \cup
             {TreeFrame("treeCallbacks", taskId, depth, me, me, parent)}]

\* loadTaskTree(taskId, depth) up to `await loadCallbacks(taskId)'
loadTaskTree(z, tasks, taskId, depth, parent) ==
    IF depth <= 0
    THEN z
    ELSE LET y == WithCallbacks(z, tasks, taskId)
             me == Len(y.calls)
         IN  [y EXCEPT !.run = @ \cup
                  {TreeFrame("treeCallbacks", taskId, depth, me, me, parent)}]

\* subtaskIds.slice(0, MAX_CONCURRENT_LOADS).map(id => loadTaskTree(id, depth - 1))
RECURSIVE MapLoadTaskTree(_, _, _, _, _)
MapLoadTaskTree(z, tasks, subtaskIds, depth, parent) ==
    IF subtaskIds = <<>> THEN z
    ELSE MapLoadTaskTree(loadTaskTree(z, tasks, Head(subtaskIds), depth, parent),
                         tasks, Tail(subtaskIds), depth, parent)

TreeAssign(z) ==
    /\ loaderState' = z.ls
    /\ running' = z.run
    /\ loaderCalls' = z.calls
    /\ store' = z.st
    /\ subtaskRequests' = z.reqs

TreeFrame_Unchanged == UNCHANGED <<opCount, hookVars, apiVars, graphVars, socketVars,
                                   measureVars, lazyVars, viewVars>>

\* loadTaskTree is called for a task on display, with the `tasks' of the
\* current render, once the call before it has returned
LoadTaskTree(taskId, depth) ==
    /\ taskId \in DOMAIN store.tasks
    /\ running = {}
    /\ tree.calls < MaxTreeCalls
    /\ lastOp' = Op("loadTaskTree", taskId)
    /\ tree' = [id |-> taskId, depth |-> depth, tasks |-> store.tasks,
                calls |-> tree.calls + 1]
    /\ TreeAssign(loadTaskTree(LoaderAll, store.tasks, taskId, depth, 0))
    /\ TreeFrame_Unchanged

Settled(f) == loaderCalls[f.awaits].status # "pending"

Without(f) == [LoaderAll EXCEPT !.run = @ \ {f}]

\* `await loadCallbacks(taskId)' is over
TreeCallbacksDone(f) ==
    /\ f.kind = "treeCallbacks"
    /\ Settled(f)
    /\ IF f.taskId \in DOMAIN tree.tasks /\ tree.tasks[f.taskId].type \in {"swarm", "chain"}
       THEN LET z == loadSubtasks(Without(f), tree.tasks, f.taskId, 0, DEFAULT_PAGE_SIZE)
            IN  TreeAssign([z EXCEPT !.run = @ \cup
                               {[f EXCEPT !.kind = "treeSubtasks",
                                          !.awaits = Len(z.calls)]}])
       ELSE TreeAssign(Without(f))
    /\ UNCHANGED <<tree, lastOp>>
    /\ TreeFrame_Unchanged

\* `await loadSubtasks(taskId, 0)' is over
TreeSubtasksDone(f) ==
    /\ f.kind = "treeSubtasks"
    /\ Settled(f)
    /\ IF f.depth > 1 /\ f.taskId \in DOMAIN store.tasks
       THEN LET subtaskIds == SubSeq(store.tasks[f.taskId].subtaskIds, 1,
                                     Min(Len(store.tasks[f.taskId].subtaskIds),
                                         MAX_CONCURRENT_LOADS))
                z == MapLoadTaskTree(Without(f), tree.tasks, subtaskIds,
                                     f.depth - 1, f.frame)
            IN  TreeAssign([z EXCEPT !.run = @ \cup {[f EXCEPT !.kind = "treeChildren"]}])
       ELSE TreeAssign(Without(f))
    /\ UNCHANGED <<tree, lastOp>>
    /\ TreeFrame_Unchanged

\* `await Promise.all(subtaskPromises)' is over
TreeChildrenDone(f) ==
    /\ f.kind = "treeChildren"
    /\ \A k \in TreeFrames : k.parent # f.frame
    /\ TreeAssign(Without(f))
    /\ UNCHANGED <<tree, lastOp>>
    /\ TreeFrame_Unchanged

TreeInit == ApiInit /\ StoreInitOn(TreeGraph) /\ LayoutIdle

TreeStart == \E depth \in 0 .. MaxTreeDepth : LoadTaskTree("r", depth)

TreeResume ==
    \/ \E f \in running : TreeCallbacksDone(f)
    \/ \E f \in running : TreeSubtasksDone(f)
    \/ \E f \in running : TreeChildrenDone(f)

\* a call whose await is over goes on in a microtask, before the response
\* of any other fetch is handled
TreeReady(f) ==
    \/ f.kind \in {"treeCallbacks", "treeSubtasks"} /\ Settled(f)
    \/ f.kind = "treeChildren" /\ \A k \in TreeFrames : k.parent # f.frame

FetchResume ==
    /\ \A f \in TreeFrames : ~TreeReady(f)
    /\ (RootsResume \/ CallbacksResume \/ SubtasksResume)

TreeNext == Mount \/ TreeStart \/ TreeResume \/ FetchResume

SpecTree == TreeInit /\ [][TreeNext]_vars

(***************************************************************************)
(* useTaskDataLazy: fetchRootTasks, loadMore and autoLoadToDepth.  The     *)
(* calls that wait are a stack: autoLoadToDepth awaits its recursive calls *)
(* one after the other.  A step runs from the response of a fetch to the   *)
(* next fetch.                                                             *)
(***************************************************************************)
MAX_DEPTH == 10

LineId(i) == "c" \o ToString(i)

LineIds == {LineId(i) : i \in 0 .. LineLength} \cup {"k"}

\* c0 -> c1 -> ... : each task has the next one as its success callback;
\* the root is a chain with one child
LineGraph ==
    [roots |-> <<"c0">>,
     type |-> [t \in LineIds |-> IF t = "c0" THEN "chain" ELSE "task"],
     parent |-> [t \in LineIds |-> IF t = "k" THEN "c0" ELSE Null],
     subtasks |-> [t \in LineIds |-> IF t = "c0" THEN <<"k">> ELSE <<>>],
     success |-> [t \in LineIds |->
                    IF \E i \in 0 .. LineLength - 1 : t = LineId(i)
                    THEN <<LineId(1 + CHOOSE i \in 0 .. LineLength - 1 : t = LineId(i))>>
                    ELSE <<>>],
     error |-> [t \in LineIds |-> <<>>]]

RingIds == {"s", "t"}

\* s and t are each other's callback
RingGraph ==
    [roots |-> <<"s">>,
     type |-> [x \in RingIds |-> "task"],
     parent |-> [x \in RingIds |-> Null],
     subtasks |-> [x \in RingIds |-> <<>>],
     success |-> [x \in RingIds |-> IF x = "s" THEN <<"t">> ELSE <<>>],
     error |-> [x \in RingIds |-> IF x = "t" THEN <<"s">> ELSE <<>>]]

IdleStates == [children |-> "idle", callbacks |-> "idle"]

Overlay(f, g) == [x \in DOMAIN f \cup DOMAIN g |-> IF x \in DOMAIN g THEN g[x] ELSE f[x]]

isContainerTask(t) == ServerType(t) \in {"chain", "swarm"}

LazyCallbacks(t) == ServerSuccessCallbacks(t) \o ServerErrorCallbacks(t)

hasCallbacks(t) == LazyCallbacks(t) # <<>>

flushPendingUpdates(L) ==
    [L EXCEPT !.tasks = @ \cup L.pending.tasks,
              !.taskDepths = Overlay(@, L.pending.depths),
              !.loadingStates = Overlay(@, L.pending.loadingStates),
              !.pending = NoPending]

\* pendingUpdatesRef.current.loadingStates[id] || loadingStates[id] || {}
PendingState(L, id) ==
    IF id \in DOMAIN L.pending.loadingStates THEN L.pending.loadingStates[id]
    ELSE IF id \in DOMAIN L.closure.loadingStates THEN L.closure.loadingStates[id]
    ELSE IdleStates

\* fetchChildrenInternal / fetchCallbacksInternal with batch = true, after
\* the response: the tasks go to the pending updates and a flush is scheduled
BatchFetched(L, taskId, field, ids) ==
    LET fresh == [x \in Range(ids) \ DOMAIN L.pending.loadingStates |-> IdleStates]
        M == [L EXCEPT !.pending.tasks = @ \cup Range(ids),
                       !.pending.loadingStates = Overlay(fresh, @)]
    IN  [M EXCEPT !.pending.loadingStates =
                      Put(@, taskId, [PendingState(M, taskId) EXCEPT ![field] = "loaded"]),
                  !.flushTimeout = TRUE]

LazyFrame(kind, taskId, depth, snapshot, pc, callbacksNotLoaded, todo) ==
    [kind |-> kind, taskId |-> taskId, depth |-> depth, snapshot |-> snapshot,
     pc |-> pc, callbacksNotLoaded |-> callbacksNotLoaded, todo |-> todo]

\* a fetch is sent; fetches is the history of them
Await(L, frame, by) ==
    [L EXCEPT !.stack = Append(@, frame),
              !.fetches = @ \cup {[taskId |-> frame.taskId, kind |-> frame.pc,
                                   depth |-> frame.depth, by |-> by]}]

ToProcess(ids, depth) == [i \in DOMAIN ids |-> [id |-> ids[i], depth |-> depth]]

\* autoLoadToDepth without the test of the depth
autoLoadToDepth_Unbounded(L, taskId, currentDepth, tasksSnapshot) ==
    IF taskId \notin L.pending.tasks \cup tasksSnapshot THEN L
    ELSE LET states == PendingState(L, taskId)
             M == [L EXCEPT !.pending.depths = Put(@, taskId, currentDepth),
                            !.recorded = @ \cup {currentDepth}]
             frame(pc) == LazyFrame("auto", taskId, currentDepth, tasksSnapshot, pc,
                                    states.callbacks # "loaded", <<>>)
         IN  IF /\ isContainerTask(taskId)
                /\ Len(ServerSubtasks(taskId)) > 0
                /\ states.children # "loaded"
             THEN Await(M, frame("children"), "auto")
             ELSE IF hasCallbacks(taskId) /\ states.callbacks # "loaded"
             THEN Await(M, frame("callbacks"), "auto")
             ELSE M

\* autoLoadToDepth up to its first await, or to its return when it has
\* nothing to fetch
autoLoadToDepth(L, taskId, currentDepth, tasksSnapshot) ==
    IF currentDepth >= MAX_DEPTH THEN L
    ELSE IF taskId \notin L.pending.tasks \cup tasksSnapshot THEN L
    ELSE LET states == PendingState(L, taskId)
             M == [L EXCEPT !.pending.depths = Put(@, taskId, currentDepth),
                            !.recorded = @ \cup {currentDepth}]
             frame(pc) == LazyFrame("auto", taskId, currentDepth, tasksSnapshot, pc,
                                    states.callbacks # "loaded", <<>>)
         IN  IF /\ isContainerTask(taskId)
                /\ Len(ServerSubtasks(taskId)) > 0
                /\ states.children # "loaded"
             THEN Await(M, frame("children"), "auto")
             ELSE IF hasCallbacks(taskId) /\ states.callbacks # "loaded"
             THEN Await(M, frame("callbacks"), "auto")
             ELSE M

Top(L) == L.stack[Len(L.stack)]

Pop(L) == [L EXCEPT !.stack = SubSeq(@, 1, Len(@) - 1)]

SetTop(L, frame) == [L EXCEPT !.stack[Len(L.stack)] = frame]

\* the loops over tasksToProcess (autoLoadToDepth) and over the fetched ids
\* (loadMore), up to the next fetch
RECURSIVE ProcessTasks(_)
ProcessTasks(L) ==
    IF L.stack = <<>> THEN L
    ELSE LET top == Top(L)
         IN  IF top.todo = <<>>
             THEN IF /\ top.kind = "more"
                     /\ top.pc = "children"
                     /\ hasCallbacks(top.taskId)
                     /\ top.callbacksNotLoaded
                  THEN Await(Pop(L), [top EXCEPT !.pc = "callbacks"], "loadMore")
                  ELSE ProcessTasks(Pop(L))
             ELSE LET next == Head(top.todo)
                      rest == SetTop(L, [top EXCEPT !.todo = Tail(@)])
                      M == IF top.kind = "more"
                           THEN [rest EXCEPT !.pending.depths = Put(@, next.id, next.depth)]
                           ELSE rest
                      updatedSnapshot ==
                          (IF top.kind = "more" THEN L.closure.tasks ELSE top.snapshot)
                          \cup M.pending.tasks
                      called == autoLoadToDepth(M, next.id, next.depth, updatedSnapshot)
                  IN  IF Len(called.stack) > Len(M.stack)
                      THEN called
                      ELSE ProcessTasks(called)

\* the last statements of fetchRootTasks and loadMore once every call has
\* returned
Finished(L) ==
    IF L.stack = <<>>
    THEN flushPendingUpdates([L EXCEPT !.flushTimeout = FALSE])
    ELSE L

LazyFrame_Unchanged == UNCHANGED <<apiVars, storeVars, graphVars, socketVars, measureVars,
                                   treeVars, viewVars>>

Render == [tasks |-> lazy.tasks, taskDepths |-> lazy.taskDepths,
           loadingStates |-> lazy.loadingStates]

\* fetchRootTasks up to `await fetch('/api/tasks/roots')'
FetchRootTasks ==
    /\ lazy.stack = <<>>
    /\ lazy.runs < MaxLazyRuns
    /\ lazy' = [lazy EXCEPT
                   !.runs = @ + 1,
                   !.closure = Render,
                   !.pending = NoPending,
                   !.stack = <<LazyFrame("roots", Null, 0, {}, "roots", FALSE, <<>>)>>]
    /\ LazyFrame_Unchanged

\* the roots arrive: state is replaced and autoLoadToDepth starts at depth 0
RootsFetched ==
    /\ lazy.stack # <<>>
    /\ Top(lazy).kind = "roots"
    /\ \/ LET roots == Range(ServerRootIds)
              L == [Pop(lazy) EXCEPT
                       !.tasks = roots,
                       !.loadingStates = [x \in roots |-> IdleStates],
                       !.taskDepths = [x \in roots |-> 0]]
          IN  lazy' = Finished(autoLoadToDepth(L, ServerRootIds[1], 0, roots))
       \/ lazy' = [Pop(lazy) EXCEPT !.tasks = {}]
    /\ LazyFrame_Unchanged

\* loadMore(taskId) up to its first fetch
LoadMore(taskId) ==
    LET currentDepth == IF taskId \in DOMAIN lazy.taskDepths
                        THEN lazy.taskDepths[taskId] ELSE 0
        states == IF taskId \in DOMAIN lazy.loadingStates
                  THEN lazy.loadingStates[taskId] ELSE IdleStates
        L == [lazy EXCEPT !.runs = @ + 1, !.closure = Render, !.pending = NoPending]
        frame(pc) == LazyFrame("more", taskId, currentDepth, {}, pc,
                               states.callbacks # "loaded", <<>>)
    IN  /\ lazy.stack = <<>>
        /\ lazy.runs < MaxLazyRuns
        /\ taskId \in lazy.tasks
        /\ lazy' = IF /\ isContainerTask(taskId)
                      /\ Len(ServerSubtasks(taskId)) > 0
                      /\ states.children # "loaded"
                   THEN Await(L, frame("children"), "loadMore")
                   ELSE IF hasCallbacks(taskId) /\ states.callbacks # "loaded"
                   THEN Await(L, frame("callbacks"), "loadMore")
                   ELSE Finished(L)
        /\ LazyFrame_Unchanged

Fetching(kind, pc) ==
    /\ lazy.stack # <<>>
    /\ Top(lazy).kind = kind
    /\ Top(lazy).pc = pc

FetchedIds(top) ==
    IF top.pc = "children" THEN ServerSubtasks(top.taskId) ELSE LazyCallbacks(top.taskId)

\* autoLoadToDepth after `await fetchChildrenInternal(taskId, true)': the
\* depths of the children are recorded; a failure is logged
AutoChildrenFetched ==
    LET top == Top(lazy)
        ids == FetchedIds(top)
        next(L) ==
            IF hasCallbacks(top.taskId) /\ top.callbacksNotLoaded
            THEN Await(Pop(L), [Top(L) EXCEPT !.pc = "callbacks"], "auto")
            ELSE Finished(ProcessTasks(L))
        fetched ==
            LET M == BatchFetched(lazy, top.taskId, "children", ids)
            IN  SetTop([M EXCEPT
                           !.pending.depths =
                               Overlay(@, [x \in Range(ids) |-> top.depth + 1]),
                           !.recorded = @ \cup {top.depth + 1}],
                       [top EXCEPT !.todo = ToProcess(ids, top.depth + 1)])
    IN  /\ Fetching("auto", "children")
        /\ \/ lazy' = next(fetched)
           \/ lazy' = next(lazy)
        /\ LazyFrame_Unchanged

\* autoLoadToDepth after `await fetchCallbacksInternal(taskId, true)'
AutoCallbacksFetched ==
    LET top == Top(lazy)
        ids == FetchedIds(top)
        fetched ==
            LET M == BatchFetched(lazy, top.taskId, "callbacks", ids)
            IN  SetTop([M EXCEPT
                           !.pending.depths =
                               Overlay(@, [x \in Range(ids) |-> top.depth + 1]),
                           !.recorded = @ \cup {top.depth + 1}],
                       [top EXCEPT !.todo = @ \o ToProcess(ids, top.depth + 1)])
    IN  /\ Fetching("auto", "callbacks")
        /\ \/ lazy' = Finished(ProcessTasks(fetched))
           \/ lazy' = Finished(ProcessTasks(lazy))
        /\ LazyFrame_Unchanged

\* loadMore after one of its fetches; a failure rejects loadMore
MoreFetched ==
    LET top == Top(lazy)
        ids == FetchedIds(top)
        fetched == SetTop(BatchFetched(lazy, top.taskId, top.pc, ids),
                          [top EXCEPT !.todo = ToProcess(ids, top.depth + 1)])
    IN  /\ lazy.stack # <<>>
        /\ top.kind = "more"
        /\ \/ lazy' = Finished(ProcessTasks(fetched))
           \/ lazy' = [lazy EXCEPT !.stack = <<>>]
        /\ LazyFrame_Unchanged

\* the timeout of scheduleFlush
FlushTimeout ==
    /\ lazy.flushTimeout
    /\ lazy' = flushPendingUpdates([lazy EXCEPT !.flushTimeout = FALSE])
    /\ LazyFrame_Unchanged

LazyInit == ApiInit /\ LayoutIdle /\ \E graph \in {LineGraph, RingGraph} : StoreInitOn(graph)

\* loadMore is asked for a root and for a task where the automatic load
\* has stopped
LoadMoreIds ==
    {t \in lazy.tasks : t \in DOMAIN lazy.taskDepths /\ lazy.taskDepths[t] \in {0, MAX_DEPTH}}

LazyStart == FetchRootTasks \/ \E taskId \in LoadMoreIds : LoadMore(taskId)

LazyResume == RootsFetched \/ AutoChildrenFetched \/ AutoCallbacksFetched \/ MoreFetched

LazyNext == LazyStart \/ LazyResume \/ FlushTimeout

SpecLazy == LazyInit /\ [][LazyNext]_vars

(***************************************************************************)
(* Properties of the store and the loader                                  *)
(***************************************************************************)
\* C2: over the loader operations and the push messages a task that stays
\* in the store keeps its subtaskIds as a prefix of the later subtaskIds and
\* its loadedPages as a subset of the later loadedPages; only a removal may
\* shrink them.
C2_SubtasksOnlyGrow ==
    [][lastOp'.op # "task_removed" =>
          \A t \in DOMAIN store.tasks \cap DOMAIN store'.tasks :
              /\ IsPrefix(store.tasks[t].subtaskIds, store'.tasks[t].subtaskIds)
              /\ store.tasks[t].subtasksPagination.loadedPages
                    \subseteq store'.tasks[t].subtasksPagination.loadedPages]_vars

SubtaskCalls == {c \in DOMAIN loaderCalls : loaderCalls[c].op = "loadSubtasks"}
SubtaskLoads == {k \in running : k.kind \in {"subtasksPage", "subtaskDetails"}}

C4_State ==
    /\ \A k1, k2 \in SubtaskLoads :
          k1.taskId = k2.taskId /\ k1.page = k2.page => k1 = k2
    /\ \A c \in SubtaskCalls :
          /\ loaderCalls[c].status = "pending" =>
                \E k \in SubtaskLoads :
                    SubtasksCacheKey(k.taskId, k.page) = loaderCalls[c].key
          /\ loaderCalls[c].outcome = "loaded" =>
                loaderCalls[c].key \in loaderState.loadedSubtasks

C4_Step ==
    /\ \A c1, c2 \in SubtaskCalls :
          /\ loaderCalls[c1].key = loaderCalls[c2].key
          /\ loaderCalls[c1].status = "pending"
          /\ loaderCalls[c2].status = "pending"
          => loaderCalls'[c1].status = loaderCalls'[c2].status
    /\ \A c \in DOMAIN loaderCalls' \ DOMAIN loaderCalls :
          loaderCalls'[c].op = "loadSubtasks" =>
             LET same == {d \in SubtaskCalls : loaderCalls[d].key = loaderCalls'[c].key}
                 concurrent == \E d \in same : loaderCalls[d].status = "pending"
                 loaded == \E d \in same : loaderCalls[d].outcome = "loaded"
             IN  /\ concurrent =>
                       /\ subtaskRequests' = subtaskRequests
                       /\ loaderCalls'[c].status = "pending"
                 /\ loaded =>
                       /\ subtaskRequests' = subtaskRequests
                       /\ store' = store
                       /\ loaderCalls'[c].status = "resolved"
                 /\ ~concurrent /\ ~loaded =>
                       Len(subtaskRequests') = Len(subtaskRequests) + 1

\* C4: of the loadSubtasks(id, page) calls that are pending together one
\* issues the children-page request, the others issue none, and all settle
\* in the same step; after a successful load a further call issues no
\* request, leaves the store as it is and is resolved at once.
C4_LoadSubtasksOnce == []C4_State /\ [][C4_Step]_vars

\* two calls shared the load of a page, it succeeded, a third call came
\* later, and one request was made for the page
C4_Witness ==
    \E c1, c2, c3 \in SubtaskCalls :
        /\ c1 < c2 /\ c2 < c3
        /\ loaderCalls[c1].key = loaderCalls[c2].key
        /\ loaderCalls[c2].key = loaderCalls[c3].key
        /\ loaderCalls[c2].promise = c1
        /\ loaderCalls[c1].outcome = "loaded"
        /\ loaderCalls[c3].promise = c3
        /\ loaderCalls[c3].status = "resolved"
        /\ Len(subtaskRequests) = 1

\* C5: the edge map holds one edge at most for a (source, target, type):
\* an edge is stored under the id made from the three, so a relationship
\* loaded again overwrites its edge.
C5_OneEdgePerRelation ==
    \A e1, e2 \in DOMAIN store.edges :
        /\ store.edges[e1].id = e1
        /\ /\ store.edges[e1].source = store.edges[e2].source
           /\ store.edges[e1].target = store.edges[e2].target
           /\ store.edges[e1].type = store.edges[e2].type
           => e1 = e2

\* a load has just written an edge whose id the map already held
C5_Witness == lastOp.overwrote /\ DOMAIN store.edges # {}

\* C6: once the task_removed handler has run for t, t is no key of tasks or
\* positions, no edge starts or ends at t, and the parent of t no longer
\* lists t in its subtaskIds.
C6_RemovedEverywhere ==
    [][lastOp'.op = "task_removed" =>
          LET t == lastOp'.id
              p == store.tasks[t].parentId
          IN  /\ t \notin DOMAIN store'.tasks
              /\ t \notin DOMAIN store'.positions
              /\ \A e \in DOMAIN store'.edges :
                    store'.edges[e].source # t /\ store'.edges[e].target # t
              /\ (t \in DOMAIN store.tasks /\ p \in DOMAIN store'.tasks) =>
                    t \notin Range(store'.tasks[p].subtaskIds)]_vars

\* C18: every loader fetch that fails after its retries is recorded as
\* 'error' in the store: a failed loadSubtasks(id, page) leaves
\* tasks[id].subtasksLoadingState = 'error', a failed loadCallbacks(id) leaves
\* tasks[id].loadingState = 'error'.
C18_Step ==
    \A c \in DOMAIN loaderCalls :
        /\ loaderCalls[c].status = "pending"
        /\ loaderCalls'[c].outcome = "failed"
        /\ lastOp'.id \in DOMAIN store'.tasks
        => /\ loaderCalls[c].op = "loadSubtasks" =>
                 store'.tasks[lastOp'.id].subtasksLoadingState = "error"
           /\ loaderCalls[c].op = "loadCallbacks" =>
                 store'.tasks[lastOp'.id].loadingState = "error"

C18_FailureInStore == [][C18_Step]_vars

\* C19: when the task stops being tracked while loadSubtasks(id, page) is in
\* flight (it is removed from the store between the call and the arrival of
\* the responses), the arriving result is discarded: no task and no edge is
\* added to the store and no key is marked loaded in the loader.
C19_Step ==
    \A k \in running \ running' :
        /\ k.kind \in {"subtasksPage", "subtaskDetails"}
        /\ k.closure # <<>>
        /\ k.taskId \notin DOMAIN store.tasks
        => /\ DOMAIN store'.tasks \subseteq DOMAIN store.tasks
           /\ DOMAIN store'.edges \subseteq DOMAIN store.edges
           /\ loaderState'.loadedSubtasks = loaderState.loadedSubtasks
           /\ loaderState'.loadedTaskIds = loaderState.loadedTaskIds

C19_DiscardUntracked == [][C19_Step]_vars

\* C20: after loadSubtasks(chainId, p, pageSize) with p > 0 completes for a
\* chain whose page p-1 was loaded before (with the same page size), the edge
\* map holds the sequence edge from the last subtask id of page p-1 to the
\* first subtask id of page p, and a sequence edge between every two
\* consecutive ids of page p.
C20_Step ==
    \A k \in running \ running' :
        /\ k.kind = "subtaskDetails"
        /\ k.page > 0
        /\ k.closure # <<>>
        /\ k.closure[1].type = "chain"
        /\ (k.page - 1) \in k.closure[1].subtasksPagination.loadedPages
        /\ \A i \in DOMAIN subtaskRequests :
              subtaskRequests[i].taskId = k.taskId => subtaskRequests[i].pageSize = k.pageSize
        /\ SubtasksCacheKey(k.taskId, k.page) \in loaderState'.loadedSubtasks
        => /\ createSequenceEdge(ServerSubtasks(k.taskId)[k.page * k.pageSize], k.ids[1]).id
                 \in DOMAIN store'.edges
           /\ \A i \in 1 .. (Len(k.ids) - 1) :
                 createSequenceEdge(k.ids[i], k.ids[i + 1]).id \in DOMAIN store'.edges

C20_BridgingEdge == [][C20_Step]_vars

\* the callback loads that wait for a response
CallbackLoads == {k \in running : k.kind \in {"callbackSelf", "callbackTasks"}}

\* C15: at any time at most MAX_CONCURRENT_LOADS callback loads started by
\* the pending-frontier processor are in flight, whatever the size of the
\* frontier and however often the processor is started again.
C15_ConcurrencyCap == Cardinality(CallbackLoads) <= MAX_CONCURRENT_LOADS

\* the ids in the pending frontier
PendingIds == Range(loaderState.pendingCallbackTaskIds)

\* the tasks reachable from S over success and error callback ids
RECURSIVE CallbackClosure(_)
CallbackClosure(S) ==
    LET next == S \cup UNION {Range(ServerSuccessCallbacks(x)) \cup
                              Range(ServerErrorCallbacks(x)) : x \in S}
    IN  IF next = S THEN S ELSE CallbackClosure(next)

Reachable == CallbackClosure(Range(ServerRootIds))

FetchFailed == \E c \in DOMAIN loaderCalls : loaderCalls[c].outcome = "failed"

\* an id leaves the frontier only into a call of loadCallbacks
C16_Step ==
    \A id \in PendingIds \ Range(loaderState'.pendingCallbackTaskIds) :
        \E c \in (Len(loaderCalls) + 1) .. Len(loaderCalls') :
            loaderCalls'[c].key = CallbacksCacheKey(id)

LoadOps == {"loadCallbacks", "loadSubtasks"}

\* no load is rejected, and every load a round awaits is in flight or
\* resolved: the round's Promise.all can only resolve
C17_State ==
    /\ \A c \in DOMAIN loaderCalls :
          loaderCalls[c].op \in LoadOps => loaderCalls[c].status # "rejected"
    /\ \A p \in processors : \A c \in DOMAIN loaderCalls :
          loaderCalls[c].promise \in p.awaiting =>
             \/ \E k \in running : k.promise = loaderCalls[c].promise
             \/ loaderCalls[c].status = "resolved"

C17_Step ==
    /\ \A c \in DOMAIN loaderCalls :
          /\ loaderCalls[c].op \in LoadOps
          /\ loaderCalls[c].status = "pending"
          /\ loaderCalls'[c].outcome = "failed"
          => /\ loaderCalls'[c].status = "resolved"
             /\ loaderCalls[c].key \notin
                   loaderState'.loadedCallbacks \cup loaderState'.loadedSubtasks
             /\ loaderCalls[c].key \notin DOMAIN loaderState'.loadingPromises
             /\ \A k \in running : k.promise # loaderCalls[c].promise => k \in running'
             /\ processors' = processors
    /\ \A c \in DOMAIN loaderCalls :
          /\ loaderCalls[c].op \in LoadOps
          /\ loaderCalls[c].status = "pending"
          /\ loaderCalls'[c].outcome = "loaded"
          => loaderCalls[c].key \in
                loaderState'.loadedCallbacks \cup loaderState'.loadedSubtasks
    /\ \A d \in (Len(loaderCalls) + 1) .. Len(loaderCalls') :
          /\ loaderCalls'[d].op \in LoadOps
          /\ \E c \in DOMAIN loaderCalls :
                loaderCalls[c].key = loaderCalls'[d].key /\ loaderCalls[c].outcome = "failed"
          /\ \A c \in DOMAIN loaderCalls :
                loaderCalls[c].key = loaderCalls'[d].key =>
                   loaderCalls[c].outcome # "loaded" /\ loaderCalls[c].status # "pending"
          => \/ \E k \in running' \ running : k.promise = loaderCalls'[d].promise
             \/ loaderCalls'[d].key \in loaderState'.loadedCallbacks

\* C17: a fetch failure inside loadCallbacks or loadSubtasks never rejects
\* the promise returned to the caller; when a load of a BFS round fails, the
\* other loads of the round stay in flight and are marked loaded when they
\* succeed, the round's Promise.all resolves and the loop goes on; the
\* failed key is neither marked loaded nor left as loading, so a later call
\* for it issues a new request.
C17_FailuresContained == []C17_State /\ [][C17_Step]_vars

C17_Witness ==
    \E p \in processors :
        /\ p.phase = "delay"
        /\ \E c, d \in DOMAIN loaderCalls :
              /\ {loaderCalls[c].promise, loaderCalls[d].promise} \subseteq p.awaiting
              /\ loaderCalls[c].outcome = "failed"
              /\ loaderCalls[d].outcome = "loaded"

\* the field each granular update names
PatchedField ==
    [updateTaskStatus |-> "status", updateTaskLoadingState |-> "loadingState",
     updateTaskSubtasksLoadingState |-> "subtasksLoadingState",
     updateTaskDimensions |-> "dimensions"]

C26_Step ==
    lastOp'.op \in DOMAIN PatchedField =>
        LET taskId == lastOp'.id
        IN  IF taskId \notin DOMAIN store.tasks
            THEN store' = store
            ELSE /\ store'.edges = store.edges
                 /\ store'.rootTaskIds = store.rootTaskIds
                 /\ store'.positions = store.positions
                 /\ DOMAIN store'.tasks = DOMAIN store.tasks
                 /\ \A t \in DOMAIN store.tasks \ {taskId} :
                       store'.tasks[t] = store.tasks[t]
                 /\ DOMAIN store'.tasks[taskId] = DOMAIN store.tasks[taskId]
                 /\ \A f \in DOMAIN store.tasks[taskId] \ {PatchedField[lastOp'.op]} :
                       store'.tasks[taskId][f] = store.tasks[taskId][f]

\* C26: updateTaskStatus, updateTaskLoadingState,
\* updateTaskSubtasksLoadingState and updateTaskDimensions change only the
\* named field of the named task: every other field of that task, every
\* other task, the edge map, rootTaskIds and positions are unchanged, and
\* when the task id is not in the store the whole state is unchanged.
C26_FieldPatch == [][C26_Step]_vars

\* three updates patched three fields of p away from what transformTask gave
\* them; s is as it was
C26_Witness ==
    /\ lastOp.op \in DOMAIN PatchedField
    /\ store.tasks["p"].status = "failed"
    /\ store.tasks["p"].subtasksLoadingState = "error"
    /\ store.tasks["p"].dimensions # NoDimensions
    /\ store.tasks["s"] = transformTask("s", <<>>)
    /\ DOMAIN store.edges # {}

\* a push message has just reached its handler
Arrived(op) == opCount' = opCount + 1 /\ lastOp'.op = op

\* C27: a task_status_changed, task_updated or task_removed message for an id
\* that is no key of tasks, and a subtask_added message whose parent is no
\* key of tasks, change neither the tasks map nor the edge map and start no
\* fetch that could write later.
C27_Step ==
    (\/ /\ \E op \in {"task_status_changed", "task_updated", "task_removed"} : Arrived(op)
        /\ lastOp'.id \notin DOMAIN store.tasks
     \/ /\ Arrived("subtask_added")
        /\ ServerParent(lastOp'.id) \notin DOMAIN store.tasks)
    => /\ store'.tasks = store.tasks
       /\ store'.edges = store.edges
       /\ running' = running

C27_IgnoresUnknownIds == [][C27_Step]_vars

\* a status change for an id the store does not hold was handled while the
\* store held other tasks
C27_Witness ==
    /\ lastOp.op = "task_status_changed"
    /\ lastOp.id \notin DOMAIN store.tasks
    /\ DOMAIN store.tasks # {}

\* the fetch of a subtask_added message has come back and its task is
\* written
SubtaskArrived(k) ==
    /\ k \in running
    /\ k.kind = "subtaskAdded"
    /\ k \notin running'
    /\ k.taskId \in DOMAIN store'.tasks
    /\ store' # store

\* C28: when the fetch of a subtask_added message (taskId, parentId) succeeds
\* with the parent in the store, taskId is in the store with parentId as its
\* parent, occurs in the parent's subtaskIds exactly once, and the edge map
\* holds the subtask edge parentId -> taskId.
C28_Step ==
    \A k \in running :
        (SubtaskArrived(k) /\ k.ids[1] \in DOMAIN store'.tasks) =>
            LET taskId == k.taskId
                parentId == k.ids[1]
                ids == store'.tasks[parentId].subtaskIds
            IN  /\ store'.tasks[taskId].parentId = parentId
                /\ Cardinality({i \in DOMAIN ids : ids[i] = taskId}) = 1
                /\ createSubtaskEdge(parentId, taskId).id \in DOMAIN store'.edges

C28_SubtaskAttached == [][C28_Step]_vars

\* the part of C28 that the handler does establish: parent link and one
\* occurrence in subtaskIds
C28_ListedOnce ==
    [][\A k \in running :
        (SubtaskArrived(k) /\ k.ids[1] \in DOMAIN store'.tasks) =>
            LET ids == store'.tasks[k.ids[1]].subtaskIds
            IN  /\ store'.tasks[k.taskId].parentId = k.ids[1]
                /\ Cardinality({i \in DOMAIN ids : ids[i] = k.taskId}) = 1]_vars

(***************************************************************************)
(* The graph view of app/: task models, page state and graph layout.       *)
(* A task datum is [id, type, nameLength, width, height, tasks, pageSize,  *)
(* parent]; width = 0 and height = 0 stand for `not given'.  SwarmTask     *)
(* names its list `children' (getChildrenForPage, hasChildren); the list   *)
(* is the field tasks here for both containers.                            *)
(***************************************************************************)
CHILD_MARGIN_TOP == 40
CHILD_MARGIN_LEFT == 20
PAGINATION_FOOTER_HEIGHT == 35
CHAIN_CHILD_SPACING == 20
SWARM_CHILD_SPACING == 15
DEFAULT_NODE_WIDTH == 180
DEFAULT_NODE_HEIGHT == 60
DEFAULT_CONTAINER_PADDING == 40

\* children of the container laid out in SpecLayout
MaxChildren == 3

IsContainer(task) == task.type \in {"ChainTaskSignature", "SwarmTaskSignature"}

hasTasks(task) == Len(task.tasks) > 0

\* Math.ceil(a / b) for a >= 0, b > 0
Ceil(a, b) == (a + b - 1) \div b

getTotalPages_Floor(task) == Max(1, Len(task.tasks) \div task.pageSize)

getTotalPages(task) == Max(1, Ceil(Len(task.tasks), task.pageSize))

getTasksForPage_Overlap(task, pageIndex) ==
    LET startIndex == pageIndex * (task.pageSize - 1)
        endIndex == Min(startIndex + task.pageSize, Len(task.tasks))
    IN  SubSeq(task.tasks, startIndex + 1, endIndex)

getTasksForPage(task, pageIndex) ==
    LET startIndex == pageIndex * task.pageSize
        endIndex == Min(startIndex + task.pageSize, Len(task.tasks))
    IN  SubSeq(task.tasks, startIndex + 1, endIndex)

needsPagination(task) == Len(task.tasks) > task.pageSize

\* paginationState[containerId] ?? 0
getPageIndex(paginationState, containerId) ==
    IF containerId \in DOMAIN paginationState THEN paginationState[containerId] ELSE 0

\* const childrenToMeasure = this.getTasksForPage(0)
childrenToMeasure_Displayed(task) ==
    getTasksForPage(task, getPageIndex(pageStates, task.id))

childrenToMeasure(task) == getTasksForPage(task, 0)

\* SimpleTask.calculateDimensions
SimpleDimensions(task) ==
    IF task.width # 0 /\ task.height # 0
    THEN [width |-> task.width, height |-> task.height]
    ELSE LET labelLength == IF task.nameLength # 0 THEN task.nameLength ELSE 10
         IN  [width |-> Max(180, Min(300, labelLength * 7 + 40)), height |-> 60]

RECURSIVE calculateDimensions(_, _)
RECURSIVE ChainMeasure(_, _, _)
RECURSIVE SwarmMeasure(_, _, _)

\* the forEach of ChainTask.calculateDimensions over the children not yet
\* measured; acc = [chainWidth, chainHeight, currentX]
ChainMeasure(children, allTasks, acc) ==
    IF children = <<>>
    THEN acc
    ELSE IF Head(children) \notin DOMAIN allTasks
    THEN ChainMeasure(Tail(children), allTasks, acc)
    ELSE LET childTask == allTasks[Head(children)]
             childDimensions == calculateDimensions(childTask, allTasks)
             label == IF IsContainer(childTask) THEN 0 ELSE 30
         IN  ChainMeasure(Tail(children), allTasks,
                [chainWidth |-> Max(acc.chainWidth,
                                    acc.currentX + childDimensions.width + CHILD_MARGIN_LEFT),
                 chainHeight |-> Max(acc.chainHeight,
                                     CHILD_MARGIN_TOP + label + childDimensions.height
                                        + CHILD_MARGIN_LEFT),
                 currentX |-> acc.currentX + childDimensions.width + CHAIN_CHILD_SPACING])

\* the forEach of SwarmTask.calculateDimensions; acc = [swarmWidth, swarmHeight]
SwarmMeasure(children, allTasks, acc) ==
    IF children = <<>>
    THEN acc
    ELSE IF Head(children) \notin DOMAIN allTasks
    THEN SwarmMeasure(Tail(children), allTasks, acc)
    ELSE LET childDimensions == calculateDimensions(allTasks[Head(children)], allTasks)
         IN  SwarmMeasure(Tail(children), allTasks,
                [swarmWidth |-> Max(acc.swarmWidth,
                                    childDimensions.width + CHILD_MARGIN_LEFT * 2),
                 swarmHeight |-> acc.swarmHeight + childDimensions.height
                                    + SWARM_CHILD_SPACING])

\* task.calculateDimensions(allTasks) of SimpleTask, ChainTask and SwarmTask
calculateDimensions(task, allTasks) ==
    LET paginationFooterHeight ==
            IF needsPagination(task) THEN PAGINATION_FOOTER_HEIGHT ELSE 0
    IN  IF task.type = "ChainTaskSignature"
        THEN IF ~hasTasks(task)
             THEN [width |-> 400, height |-> 150]
             ELSE LET m == ChainMeasure(childrenToMeasure(task), allTasks,
                                        [chainWidth |-> CHILD_MARGIN_LEFT * 2,
                                         chainHeight |-> 120,
                                         currentX |-> CHILD_MARGIN_LEFT])
                  IN  [width |-> m.chainWidth,
                       height |-> m.chainHeight + paginationFooterHeight]
        ELSE IF task.type = "SwarmTaskSignature"
        THEN IF ~hasTasks(task)
             THEN [width |-> 250, height |-> 200]
             ELSE LET m == SwarmMeasure(childrenToMeasure(task), allTasks,
                                        [swarmWidth |-> 200,
                                         swarmHeight |-> CHILD_MARGIN_TOP])
                  IN  [width |-> m.swarmWidth,
                       height |-> m.swarmHeight + CHILD_MARGIN_LEFT
                                     + paginationFooterHeight]
        ELSE SimpleDimensions(task)

\* Task.createReactFlowNode, with what addPaginationToNode adds: the node's
\* size, its parent node and the page shown (<<>> without pagination)
createReactFlowNode(task, allTasks, parentNode, pagination) ==
    LET dimensions == calculateDimensions(task, allTasks)
    IN  [id |-> task.id, width |-> dimensions.width, height |-> dimensions.height,
         parentNode |-> parentNode, pagination |-> pagination]

\* ChainTask.layoutChildren and SwarmTask.layoutChildren: the nodes of the
\* children of page pageIndex; a nested container shows its page 0
RECURSIVE layoutChildren(_, _, _)
layoutChildren(task, allTasks, pageIndex) ==
    IF ~hasTasks(task)
    THEN {}
    ELSE LET pageChildren == {id \in Range(getTasksForPage(task, pageIndex)) :
                                 id \in DOMAIN allTasks}
         IN  UNION {
                IF IsContainer(allTasks[id])
                THEN {createReactFlowNode(allTasks[id], allTasks, task.id, <<>>)}
                        \cup layoutChildren(allTasks[id], allTasks, 0)
                ELSE IF allTasks[id].parent \in {Null, task.id}
                THEN {createReactFlowNode(allTasks[id], allTasks, task.id, <<>>)}
                ELSE {} : id \in pageChildren}

\* the edge ChainTask.layoutChildren puts between a child and the next one
ChainEdge(childId, nextChildId) ==
    [id |-> childId \o "-chain-" \o nextChildId, source |-> childId,
     target |-> nextChildId]

\* the children ChainTask.layoutChildren walks over
chainChildren_All(task, pageIndex) == task.tasks

chainChildren(task, pageIndex) == getTasksForPage(task, pageIndex)

\* ChainTask.layoutChildren and SwarmTask.layoutChildren: the edges; a child
\* that is not in allTasks is skipped before its edge is made
RECURSIVE layoutChildrenEdges(_, _, _)
layoutChildrenEdges(task, allTasks, pageIndex) ==
    IF ~hasTasks(task)
    THEN {}
    ELSE LET children == IF task.type = "ChainTaskSignature"
                         THEN chainChildren(task, pageIndex)
                         ELSE getTasksForPage(task, pageIndex)
             own == IF task.type = "ChainTaskSignature"
                    THEN {ChainEdge(children[i], children[i + 1]) :
                             i \in {j \in 1 .. (Len(children) - 1) :
                                        children[j] \in DOMAIN allTasks}}
                    ELSE {}
         IN  own \cup UNION {layoutChildrenEdges(allTasks[id], allTasks, 0) :
                                id \in {c \in Range(children) :
                                           c \in DOMAIN allTasks
                                           /\ IsContainer(allTasks[c])}}

\* buildChainGraphLayout(tasksData, paginationState): the edges of the
\* containers; the tasks of tasksData have no callbacks, so no edge joins two
\* top-level tasks
buildChainGraphEdges(data, paginationState) ==
    UNION {layoutChildrenEdges(data[id], data, getPageIndex(paginationState, id)) :
              id \in {t \in DOMAIN data : data[t].parent = Null /\ IsContainer(data[t])}}

\* buildChainGraphLayout(tasksData, paginationState): the nodes by id
buildChainGraphLayout(data, paginationState) ==
    LET top == {id \in DOMAIN data : data[id].parent = Null}
        pageOf(id) ==
            IF needsPagination(data[id])
            THEN <<[currentPage |-> getPageIndex(paginationState, id),
                    totalPages |-> getTotalPages(data[id])]>>
            ELSE <<>>
        nodeSet ==
            UNION {IF IsContainer(data[id])
                   THEN {createReactFlowNode(data[id], data, Null, pageOf(id))}
                           \cup layoutChildren(data[id], data,
                                               getPageIndex(paginationState, id))
                   ELSE {createReactFlowNode(data[id], data, Null, <<>>)} : id \in top}
    IN  [id \in {n.id : n \in nodeSet} |-> CHOOSE n \in nodeSet : n.id = id]

(***************************************************************************)
(* frontend/src/layout/layoutEngine.ts                                     *)
(***************************************************************************)
getNodeDimensions(task, expandedNodeIds) ==
    IF task.dimensions # NoDimensions
    THEN [width |-> task.dimensions[1].width, height |-> task.dimensions[1].height]
    ELSE IF task.type \in {"swarm", "chain"} /\ task.id \in expandedNodeIds
    THEN LET visibleCount == Min(task.subtasksPagination.pageSize, Len(task.subtaskIds))
         IN  [width |-> DEFAULT_NODE_WIDTH + DEFAULT_CONTAINER_PADDING * 2,
              height |-> DEFAULT_NODE_HEIGHT + visibleCount * 50
                            + DEFAULT_CONTAINER_PADDING]
    ELSE [width |-> DEFAULT_NODE_WIDTH, height |-> DEFAULT_NODE_HEIGHT]

(***************************************************************************)
(* SpecLayout: a container k with its children is given to the graph view, *)
(* the pagination controls move its page and the graph is laid out again;  *)
(* the store of the frontend holds the chain p, whose page is set too.     *)
(***************************************************************************)
LayoutPageSizes == {1, 2}
ChildKinds == {"short", "long", "sized", "chain"}
MeasuredSizes == {NoDimensions, <<[width |-> 320, height |-> 240]>>}

ChildId(i) == "k" \o ToString(i)

TaskData(id, type, nameLength, width, height, tasks, pageSize, parent) ==
    [id |-> id, type |-> type, nameLength |-> nameLength, width |-> width,
     height |-> height, tasks |-> tasks, pageSize |-> pageSize, parent |-> parent]

\* a child of k: a task with a short or a long name, a task with its size
\* given, or an empty chain
ChildData(id, kind) ==
    TaskData(id,
             IF kind = "chain" THEN "ChainTaskSignature" ELSE "TaskSignature",
             IF kind = "long" THEN 30 ELSE 10,
             IF kind = "sized" THEN 300 ELSE 0,
             IF kind = "sized" THEN 100 ELSE 0,
             <<>>, 10, "k")

LayoutInit ==
    /\ \E type \in {"ChainTaskSignature", "SwarmTaskSignature"},
          pageSize \in LayoutPageSizes, n \in 0 .. MaxChildren :
          \E kinds \in [1 .. n -> ChildKinds] :
             tasksData =
                [id \in {"k"} \cup {ChildId(i) : i \in 1 .. n} |->
                    IF id = "k"
                    THEN TaskData("k", type, 10, 0, 0, [i \in 1 .. n |-> ChildId(i)],
                                  pageSize, Null)
                    ELSE ChildData(id, kinds[CHOOSE i \in 1 .. n : ChildId(i) = id])]
    /\ pageStates = EmptyMap
    /\ nodes = buildChainGraphLayout(tasksData, pageStates)
    /\ graphEdges = buildChainGraphEdges(tasksData, pageStates)
    /\ ComponentsIdle

\* the graph is laid out again with the new page state
Paginated(newPageStates) ==
    /\ pageStates' = newPageStates
    /\ nodes' = buildChainGraphLayout(tasksData, newPageStates)
    /\ graphEdges' = buildChainGraphEdges(tasksData, newPageStates)
    /\ UNCHANGED <<tasksData, apiVars, storeVars, componentVars>>

\* usePaginationState
setPage(containerId, page) == Paginated(Put(pageStates, containerId, page))

goToNextPage(containerId, totalPages) ==
    LET currentPage == getPageIndex(pageStates, containerId)
        nextPage == Min(currentPage + 1, totalPages - 1)
    IN  Paginated(Put(pageStates, containerId, nextPage))

goToPrevPage(containerId) ==
    LET currentPage == getPageIndex(pageStates, containerId)
        prevPage == Max(currentPage - 1, 0)
    IN  Paginated(Put(pageStates, containerId, prevPage))

goToFirstPage(containerId) == Paginated(Put(pageStates, containerId, 0))

goToLastPage(containerId, totalPages) ==
    Paginated(Put(pageStates, containerId, totalPages - 1))

\* the controls addPaginationToNode gives the node of a paginated container
LayoutNext ==
    \/ \E page \in 0 .. MaxChildren : setPage("k", page)
    \/ needsPagination(tasksData["k"])
          /\ goToNextPage("k", getTotalPages(tasksData["k"]))
    \/ needsPagination(tasksData["k"]) /\ goToPrevPage("k")
    \/ needsPagination(tasksData["k"]) /\ goToFirstPage("k")
    \/ needsPagination(tasksData["k"])
          /\ goToLastPage("k", getTotalPages(tasksData["k"]))
    \/ \E page \in LoaderPages : SetSubtaskPage("p", page)

FrontInit ==
    /\ server = ChainGraph
    /\ rendered = FirstRender
    /\ processors = {}
    /\ \E payload \in SubtaskIdsPayloads("p"), measured \in MeasuredSizes :
          store = setTask(initialState,
                          [transformTask("p", payload) EXCEPT !.dimensions = measured])
    /\ loaderState = LoaderInit
    /\ running = {}
    /\ loaderCalls = <<>>
    /\ subtaskRequests = <<>>
    /\ lastOp = NoOp
    /\ opCount = 0

\* a graph is handed to buildChainGraphLayout, every container on page 0
GraphInit == ApiInit /\ FrontInit /\ LayoutInit

SpecLayout == GraphInit /\ [][LayoutNext]_vars

Containers == {id \in DOMAIN tasksData : IsContainer(tasksData[id])}

C1_State ==
    /\ "k" \in DOMAIN nodes
    /\ LET first == buildChainGraphLayout(tasksData, EmptyMap)
       IN  \A id \in Containers \cap DOMAIN nodes \cap DOMAIN first :
              /\ nodes[id].width = first[id].width
              /\ nodes[id].height = first[id].height
    /\ \A t \in DOMAIN store.tasks :
          \A expandedNodeIds \in SUBSET {t} :
              getNodeDimensions(store.tasks[t], expandedNodeIds) =
                  getNodeDimensions(
                      [store.tasks[t] EXCEPT !.subtasksPagination.currentPage = 0],
                      expandedNodeIds)

C1_Step ==
    /\ \A id \in Containers \cap DOMAIN nodes \cap DOMAIN nodes' :
          /\ nodes'[id].width = nodes[id].width
          /\ nodes'[id].height = nodes[id].height
    /\ \A t \in DOMAIN store.tasks \cap DOMAIN store'.tasks :
          \A expandedNodeIds \in SUBSET {t} :
              getNodeDimensions(store'.tasks[t], expandedNodeIds) =
                  getNodeDimensions(store.tasks[t], expandedNodeIds)

\* C1: whatever page of a container is displayed, the node of the container
\* has the width and the height it has when page 0 is displayed, in the
\* graph of buildChainGraphLayout and in LayoutEngine.getNodeDimensions, and
\* a change of page leaves both as they are.
C1_DimensionStability == []C1_State /\ [][C1_Step]_vars

\* page 1 of k is displayed, and its child is wider than the child of page 0
C1_Witness ==
    /\ "k" \in DOMAIN pageStates
    /\ pageStates["k"] = 1
    /\ "k2" \in DOMAIN nodes
    /\ "k1" \notin DOMAIN nodes
    /\ nodes["k2"].width > calculateDimensions(tasksData["k1"], tasksData).width
    /\ \E t \in DOMAIN store.tasks :
          store.tasks[t].subtasksPagination.currentPage = 1

\* the pages of task, page 0 first
RECURSIVE PagesUpTo(_, _)
PagesUpTo(task, n) ==
    IF n = 0 THEN <<>> ELSE PagesUpTo(task, n - 1) \o getTasksForPage(task, n - 1)

\* C23: for the container k with c children and page size p, page i
\* (0 <= i < totalPages) is children[i*p .. min((i+1)*p, c) - 1] in order: the
\* pages are pairwise disjoint, their concatenation in page order is the
\* children list, every page but the last has p items, a page index at or
\* past the end gives the empty list; the laid out children are those of the
\* displayed page.
C23_PageSlicing ==
    LET k == tasksData["k"]
        c == Len(k.tasks)
        p == k.pageSize
        totalPages == getTotalPages(k)
        page(i) == getTasksForPage(k, i)
        shown == page(getPageIndex(pageStates, "k"))
    IN  /\ \A i \in 0 .. (totalPages - 1) :
              /\ Len(page(i)) = Min((i + 1) * p, c) - Min(i * p, c)
              /\ \A j \in 1 .. Len(page(i)) : page(i)[j] = k.tasks[i * p + j]
              /\ i < totalPages - 1 => Len(page(i)) = p
        /\ \A i, j \in 0 .. (totalPages - 1) :
              i # j => Range(page(i)) \cap Range(page(j)) = {}
        /\ PagesUpTo(k, totalPages) = k.tasks
        /\ \A i \in totalPages .. (MaxChildren + 1) : c > 0 => page(i) = <<>>
        /\ {id \in DOMAIN nodes : id # "k"} = Range(shown)

\* the last page of three children by pages of two is displayed
C23_Witness ==
    /\ Len(tasksData["k"].tasks) = 3
    /\ tasksData["k"].pageSize = 2
    /\ getPageIndex(pageStates, "k") = 1
    /\ DOMAIN nodes = {"k", "k3"}

\* C24: for the container k with c >= 0 children and page size p >= 1,
\* getTotalPages is max(1, ceil(c/p)), and needsPagination is true exactly
\* when c > p, so exactly when getTotalPages > 1.
C24_TotalPages ==
    LET k == tasksData["k"]
        c == Len(k.tasks)
        p == k.pageSize
        n == getTotalPages(k)
    IN  /\ n >= 1
        /\ n * p >= c
        /\ n > 1 => (n - 1) * p < c
        /\ needsPagination(k) <=> c > p
        /\ needsPagination(k) <=> n > 1
        /\ \A node \in {nodes[id] : id \in {"k"} \cap DOMAIN nodes} :
              node.pagination # <<>> => node.pagination[1].totalPages = n

\* three children by pages of two: two pages, the second one not full
C24_Witness ==
    /\ Len(tasksData["k"].tasks) = 3
    /\ tasksData["k"].pageSize = 2
    /\ getTotalPages(tasksData["k"]) = 2
    /\ "k" \in DOMAIN pageStates
    /\ nodes["k"].pagination # <<>>
    /\ nodes["k"].pagination[1].totalPages = 2

C29_Step ==
    (\E i \in DOMAIN sockets : sockets[i] # "CLOSED" /\ sockets'[i] = "CLOSED")
    => wsClient'.reconnectTimer = Min(1000 * Pow2(reconnects), 30000)

C29_BackoffSinceOpen == [][C29_Step]_vars

\* the parts of C29 that hold: the timer waits the delay of the attempts
\* counter, the counter is zero after an open, and a lost connection always
\* arms the one timer
C29_TimerArmed ==
    [][/\ (\E i \in DOMAIN sockets : sockets[i] # "CLOSED" /\ sockets'[i] = "CLOSED")
          => wsClient'.reconnectTimer = ReconnectDelay(wsClient.reconnectAttempts)
       /\ (\E i \in DOMAIN sockets : sockets[i] # "OPEN" /\ sockets'[i] = "OPEN")
          => wsClient'.reconnectAttempts = 0]_vars

\* a debounce timeout has just written the dimensions
DimensionsWritten == bursts'.writes = bursts.writes + 1

\* C30: a burst of measurements, each less than 100 ms after the one before,
\* makes one updateTaskDimensions write: it is made 100 ms after the last
\* measurement with that measurement's size raised to the minimum width and
\* height; once the window is over the write has been made; and a node that
\* is unmounted keeps no timeout and writes nothing.
C30_Step ==
    /\ DimensionsWritten =>
          /\ bursts'.writes = 1
          /\ now = bursts.lastAt + 100
          /\ store'.tasks[MeasuredTask].dimensions =
                <<[width |-> Max(bursts.width, 100), height |-> Max(bursts.height, 40),
                   calculatedAt |-> now]>>
    /\ measure.mounted = "gone" => store' = store

C30_State ==
    /\ (measure.mounted = "yes" /\ now > bursts.lastAt + 100) => bursts.writes = 1
    /\ measure.mounted = "gone" => measure.timeouts = {}

C30_OneWritePerBurst == [][C30_Step]_vars /\ []C30_State

\* a burst of three measurements ended with a size below both minimums and
\* its one write is in the store
C30_Witness ==
    /\ bursts.events = 3
    /\ bursts.writes = 1
    /\ bursts.width = 50
    /\ store.tasks[MeasuredTask].dimensions =
          <<[width |-> 100, height |-> 40, calculatedAt |-> bursts.lastAt + 100]>>

\* container levels from the task of the outermost call down to t; -1 when
\* t is not below it
RECURSIVE LevelBelow(_, _)
LevelBelow(top, t) ==
    IF t = top THEN 0
    ELSE IF ServerParent(t) = Null THEN -1
    ELSE LET up == LevelBelow(top, ServerParent(t))
         IN  IF up < 0 THEN -1 ELSE up + 1

\* the loader calls made in this step
NewLoads == (Len(loaderCalls) + 1) .. Len(loaderCalls')

\* position of t in the subtaskIds of its parent, as the store has them
FirstSubtasks(parentId) ==
    IF parentId \in DOMAIN store.tasks
    THEN {store.tasks[parentId].subtaskIds[i] :
             i \in 1 .. Min(5, Len(store.tasks[parentId].subtaskIds))}
    ELSE {}

\* what a step of loadTaskTree may do: with depth <= 0 nothing; else every
\* loadCallbacks and loadSubtasks it calls is for a task at most depth - 1
\* levels below the task of the outermost call, and a task below it is one
\* of the first five subtaskIds of its parent
C21_Step ==
    /\ (tree'.calls # tree.calls /\ tree'.depth <= 0) =>
          UNCHANGED <<store, loaderState, running, loaderCalls, subtaskRequests>>
    /\ (TreeFrames \cup TreeFrames' # {}) =>
          \A c \in NewLoads :
             \E t \in TreeIds :
                /\ loaderCalls'[c].key \in {CallbacksCacheKey(t), SubtasksCacheKey(t, 0)}
                /\ LevelBelow(tree'.id, t) >= 0
                /\ LevelBelow(tree'.id, t) <= tree'.depth - 1
                /\ t # tree'.id => t \in FirstSubtasks(ServerParent(t))

\* the calls that wait: each was made with a depth of 1 at least, and with
\* the depth of the call that made it less one
C21_Frames ==
    \A f \in TreeFrames :
        /\ f.depth >= 1
        /\ f.depth = tree.depth - LevelBelow(tree.id, f.taskId)
        /\ f.parent # 0 =>
              \E g \in TreeFrames :
                 g.frame = f.parent /\ g.kind = "treeChildren" /\ f.depth = g.depth - 1

\* progress: a new loader call or outermost call counts 10, and a waiting
\* call or fetch counts the awaits it has behind it less 3
TreeProgress ==
    10 * Len(loaderCalls) + 10 * tree.calls
    - 3 * Cardinality({k \in running :
                          k.kind \in {"rootIds", "callbackSelf", "subtasksPage",
                                      "treeCallbacks"}})
    - 2 * Cardinality({k \in running :
                          k.kind \in {"rootTasks", "callbackTasks", "subtaskDetails",
                                      "treeSubtasks"}})
    - Cardinality({k \in running : k.kind = "treeChildren"})

\* while a call of loadTaskTree waits, either it can go on or a fetch of
\* the loader is under way
C21_NotStuck ==
    TreeFrames # {} =>
        \/ \E f \in TreeFrames : TreeReady(f)
        \/ \E k \in running : k.kind \notin TreeKinds

\* C21: loadTaskTree(id, depth) loads nothing when depth <= 0, makes its
\* recursive calls with depth - 1, so that it loads callbacks and subtasks
\* only for tasks at most depth - 1 container levels below id and only for
\* the first 5 subtask ids of a container, and it returns: every step makes
\* progress and no waiting call is stuck.
C21_BoundedTree ==
    /\ [][C21_Step /\ TreeProgress' > TreeProgress]_vars
    /\ [](C21_Frames /\ C21_NotStuck)

\* a call with depth 2 for the chain r has started the calls for the first
\* five subtasks, each with depth 1, and none for the sixth
C21_Witness ==
    /\ tree.depth = 2
    /\ \E f \in TreeFrames : f.kind = "treeChildren" /\ f.taskId = "r"
    /\ {f.taskId : f \in {g \in TreeFrames : g.parent # 0}} = {"k1", "k2", "k3", "k4", "k5"}
    /\ Len(store.tasks["r"].subtaskIds) = 6

\* the fetches sent and the depths recorded by autoLoadToDepth
C22_DepthBound ==
    /\ \A f \in lazy.fetches : f.by = "auto" => f.depth < 10
    /\ \A d \in lazy.recorded : d <= 10

\* how far the call at position i of the stack is: the fetch of the roots
\* is before the automatic load it starts, a call that has its callbacks
\* still to fetch is before one that has not, a call that waits for its
\* fetch is before the same call going through what it fetched
Phase(L, i) ==
    IF L.stack[i].kind = "roots" THEN 4
    ELSE (IF L.stack[i].pc = "children" THEN 2 ELSE 0)
         + (IF i = Len(L.stack) THEN 1 ELSE 0)

Rank(L, i) == <<Phase(L, i), Len(L.stack[i].todo)>>

\* the calls that wait in M are before those of L: up to some call they are
\* as far as in L, and that call has returned or has moved on
StackLess(M, L) ==
    \E i \in 1 .. Len(L.stack) :
        /\ \A j \in 1 .. i - 1 : j <= Len(M.stack) /\ Rank(M, j) = Rank(L, j)
        /\ \/ Len(M.stack) < i
           \/ Rank(M, i)[1] < Rank(L, i)[1]
           \/ Rank(M, i)[1] = Rank(L, i)[1] /\ Rank(M, i)[2] < Rank(L, i)[2]

\* a step while calls wait: it is the flush timeout, or the calls move on
C22_Step ==
    lazy.stack # <<>> =>
        \/ lazy'.stack = lazy.stack /\ lazy.flushTimeout /\ ~lazy'.flushTimeout
        \/ StackLess(lazy', lazy)

\* the calls that wait are one per depth, and the last one waits for a
\* fetch whose response resumes it
C22_Stack ==
    /\ Len(lazy.stack) <= MAX_DEPTH + 1
    /\ \A i \in 1 .. Len(lazy.stack) - 1 :
          lazy.stack[i + 1].depth = lazy.stack[i].depth + 1
    /\ lazy.stack # <<>> =>
          \/ Top(lazy).kind = "roots"
          \/ Top(lazy).kind = "more"
          \/ Top(lazy).kind = "auto" /\ Top(lazy).pc \in {"children", "callbacks"}

\* C22: autoLoadToDepth, started by fetchRootTasks or by loadMore, sends no
\* fetch for the children or callbacks of a task at depth 10 or more,
\* records no depth above 10, and returns on every graph, also when the
\* callbacks form a cycle: the calls that wait are 11 at most, every step
\* moves them on in a well-founded order and the last one is never stuck.
C22_BoundedAutoLoad ==
    /\ [][C22_Step]_vars
    /\ [](C22_DepthBound /\ C22_Stack)

\* the automatic load has followed the callbacks down to depth 9, recorded
\* depth 10 for the task after it and has returned
C22_Witness ==
    /\ lazy.stack = <<>>
    /\ \E f \in lazy.fetches : f.by = "auto" /\ f.depth = 9
    /\ 10 \in lazy.recorded
    /\ \E t \in DOMAIN lazy.taskDepths : lazy.taskDepths[t] = 10

\* the callback edges of t, as createSuccessEdge and createErrorEdge name them
CallbackEdgeIds(t) ==
    {createEdgeId(t, c, "success") : c \in Range(store.tasks[t].successCallbackIds)}
    \cup {createEdgeId(t, c, "error") : c \in Range(store.tasks[t].errorCallbackIds)}

\* C31: once loadCallbacks(t) has marked callbacks:t as loaded, the edge map
\* holds a success edge t -> c for every success callback c of t and an
\* error edge t -> c for every error callback, also when the callback tasks
\* of t were loaded through another task before.
C31_CallbackEdges ==
    \A t \in DOMAIN store.tasks :
        CallbacksCacheKey(t) \in loaderState.loadedCallbacks =>
            CallbackEdgeIds(t) \subseteq DOMAIN store.edges

(***************************************************************************)
(* SpecAppend: appendSubtaskIds called on the chain p, whose subtaskIds    *)
(* are a, b, c, with id lists that hold ids p has, ids it has not, and an  *)
(* id twice                                                                *)
(***************************************************************************)
AppendIds == {"a", "d", "e"}

AppendArgs == {<<>>} \cup {<<x>> : x \in AppendIds} \cup {<<x, y>> : x, y \in AppendIds}

AppendPages == 0 .. 2

AppendSubtaskIds(subtaskIds, page) ==
    Patch("appendSubtaskIds", "p", appendSubtaskIds(store, "p", subtaskIds, page))

AppendNext == \E subtaskIds \in AppendArgs, page \in AppendPages : AppendSubtaskIds(subtaskIds, page)

SpecAppend == PatchInit /\ [][AppendNext]_vars

\* the subtaskIds of p hold no id twice
C32_State == NoDup(store.tasks["p"].subtaskIds)

\* a call of appendSubtaskIds keeps the ids p had at their positions, adds
\* only ids of its argument, and leaves a loaded page more or the same
C32_Step ==
    Arrived("appendSubtaskIds") =>
        /\ IsPrefix(store.tasks["p"].subtaskIds, store'.tasks["p"].subtaskIds)
        /\ Range(store'.tasks["p"].subtaskIds) \subseteq
              Range(store.tasks["p"].subtaskIds) \cup AppendIds
        /\ store.tasks["p"].subtasksPagination.loadedPages \subseteq
              store'.tasks["p"].subtasksPagination.loadedPages
        /\ store'.tasks["p"].subtasksPagination.loadedPages # {}

\* C32: after any sequence of appendSubtaskIds calls on a task whose
\* subtaskIds started without duplicates, subtaskIds holds no id twice, also
\* when one argument repeats an id that was not present; the ids present
\* keep their positions, the new ids are appended, and the page is loaded.
C32_NoDuplicates == []C32_State /\ [][C32_Step]_vars

\* the fetch of a task_updated message has come back and its task is
\* written over the one the store held
TaskRewritten(k) ==
    /\ k \in running
    /\ k.kind = "taskUpdate"
    /\ k \notin running'
    /\ k.taskId \in DOMAIN store.tasks
    /\ k.taskId \in DOMAIN store'.tasks
    /\ store' # store

\* the fields of a task that the client sets
ClientFields(task) ==
    [dimensions |-> task.dimensions,
     currentPage |-> task.subtasksPagination.currentPage,
     pageSize |-> task.subtasksPagination.pageSize,
     loadedPages |-> task.subtasksPagination.loadedPages,
     subtasksLoadingState |-> task.subtasksLoadingState,
     parentId |-> task.parentId]

C33_Step ==
    \A k \in running :
        TaskRewritten(k) =>
            ClientFields(store'.tasks[k.taskId]) = ClientFields(store.tasks[k.taskId])

\* C33: handling a task_updated message for a task in the store leaves the
\* client-side fields of the task as they were: the measured dimensions, the
\* currentPage, pageSize and loadedPages of subtasksPagination, the
\* subtasksLoadingState and the parentId are the same after the refetched
\* task is written as before.
C33_ClientFieldsKept == [][C33_Step]_vars

(***************************************************************************)
(* components/TaskGraph: calculateTaskDimensions (taskSizeUtils.ts) and    *)
(* the ContainerTaskNode that renders with it.  SpecContainer renders one  *)
(* container over a task map and changes its page.                         *)
(***************************************************************************)
SIMPLE_TASK_WIDTH == 180
SIMPLE_TASK_HEIGHT == 60
CONTAINER_PADDING == 24
CONTAINER_HEADER_HEIGHT == 40
CONTAINER_FOOTER_HEIGHT == 36
INNER_TASK_GAP == 12
TASKS_PER_PAGE == 5

\* most children of the container that is rendered
MaxMockChildren == 6

\* Math.max() of no argument is -Infinity
NegativeInfinity == 0 - 1000000000

MockKinds == {"simple", "nested", "missing"}

\* the i-th child of the container c: a simple task, a container with two
\* simple children, or an id that tasksMap does not hold
MockChildId(i, kind) ==
    (IF kind = "simple" THEN "x" ELSE IF kind = "nested" THEN "n" ELSE "g") \o ToString(i)

MockTask(id, type, children_ids) == [id |-> id, type |-> type, children_ids |-> children_ids]

MockIndexes == 1 .. MaxMockChildren

MockLeafIds == {"y" \o ToString(i) \o side : i \in MockIndexes, side \in {"a", "b"}}

\* mockTasks: the container c of the given type and its children
MockTasks(type, kinds) ==
    LET simple == {MockChildId(i, "simple") : i \in MockIndexes} \cup MockLeafIds
        nested == {MockChildId(i, "nested") : i \in MockIndexes}
        index(id) == CHOOSE i \in MockIndexes : id = MockChildId(i, "nested")
    IN  [id \in simple \cup nested \cup {"c"} |->
            IF id = "c"
            THEN MockTask("c", type, [i \in DOMAIN kinds |-> MockChildId(i, kinds[i])])
            ELSE IF id \in nested
            THEN MockTask(id, IF type = "chain" THEN "swarm" ELSE "chain",
                          <<"y" \o ToString(index(id)) \o "a",
                            "y" \o ToString(index(id)) \o "b">>)
            ELSE MockTask(id, "simple", <<>>)]

RECURSIVE SumOf(_, _)
SumOf(dims, field) ==
    IF dims = <<>> THEN 0 ELSE Head(dims)[field] + SumOf(Tail(dims), field)

RECURSIVE MaxOf(_, _)
MaxOf(dims, field) ==
    IF dims = <<>> THEN NegativeInfinity
    ELSE Max(Head(dims)[field], MaxOf(Tail(dims), field))

\* Array.prototype.slice(start, end) with 0 <= start
Slice(s, start, end) == SubSeq(s, start + 1, Min(end, Len(s)))

\* children_ids.map(id => tasksMap[id]).filter(Boolean)
ChildTasks(task, tasksMap) ==
    LET present == SelectSeq(task.children_ids, LAMBDA id : id \in DOMAIN tasksMap)
    IN  [i \in DOMAIN present |-> tasksMap[present[i]]]

RECURSIVE calculateTaskDimensions(_, _, _)
calculateTaskDimensions(task, tasksMap, currentPage) ==
    IF task.type = "simple"
    THEN [width |-> SIMPLE_TASK_WIDTH, height |-> SIMPLE_TASK_HEIGHT]
    ELSE LET childTasks == ChildTasks(task, tasksMap)
         IN  IF Len(childTasks) = 0
             THEN [width |-> SIMPLE_TASK_WIDTH + CONTAINER_PADDING * 2,
                   height |-> SIMPLE_TASK_HEIGHT + CONTAINER_HEADER_HEIGHT
                                + CONTAINER_PADDING * 2]
             ELSE LET startIndex == (currentPage - 1) * TASKS_PER_PAGE
                      paginatedChildren ==
                          Slice(childTasks, startIndex, startIndex + TASKS_PER_PAGE)
                      childDimensions ==
                          [i \in DOMAIN paginatedChildren |->
                              calculateTaskDimensions(paginatedChildren[i], tasksMap, 1)]
                      gaps == (Len(childDimensions) - 1) * INNER_TASK_GAP
                      contentWidth ==
                          IF task.type = "chain"
                          THEN SumOf(childDimensions, "width") + gaps
                          ELSE MaxOf(childDimensions, "width")
                      contentHeight ==
                          IF task.type = "chain"
                          THEN MaxOf(childDimensions, "height")
                          ELSE SumOf(childDimensions, "height") + gaps
                      paginated == Len(childTasks) > TASKS_PER_PAGE
                  IN  [width |-> contentWidth + CONTAINER_PADDING * 2,
                       height |-> contentHeight + CONTAINER_HEADER_HEIGHT
                                    + CONTAINER_PADDING * 2
                                    + (IF paginated THEN CONTAINER_FOOTER_HEIGHT ELSE 0)]

\* Math.ceil(childTasks.length / TASKS_PER_PAGE)
ContainerTotalPages(c) ==
    (Len(ChildTasks(c.tasks[c.task], c.tasks)) + TASKS_PER_PAGE - 1) \div TASKS_PER_PAGE

\* a render of ContainerTaskNode: currentDimensions is its style
RenderContainer(c) ==
    LET currentDimensions == calculateTaskDimensions(c.tasks[c.task], c.tasks, c.currentPage)
    IN  [c EXCEPT !.width = currentDimensions.width, !.height = currentDimensions.height]

ContainerFrame_Unchanged ==
    UNCHANGED <<apiVars, storeVars, graphVars, socketVars, measureVars, treeVars, lazyVars,
                engine>>

\* the node is rendered for the first time: useState(1)
MountContainer(type, kinds) ==
    /\ container.task = Null
    /\ container' = RenderContainer([container EXCEPT !.tasks = MockTasks(type, kinds),
                                                      !.task = "c",
                                                      !.currentPage = 1])
    /\ ContainerFrame_Unchanged

\* handlePageChange(newPage) and the render that follows
HandlePageChange(newPage) ==
    /\ container.task # Null
    /\ container' =
          RenderContainer([container EXCEPT
                              !.currentPage =
                                  Max(1, Min(newPage, ContainerTotalPages(container)))])
    /\ ContainerFrame_Unchanged

MockPages == 0 .. 3

ContainerNext ==
    \/ \E type \in {"chain", "swarm"}, n \in 0 .. MaxMockChildren :
          \E kinds \in [1 .. n -> MockKinds] : MountContainer(type, kinds)
    \/ \E newPage \in MockPages : HandlePageChange(newPage)

SpecContainer == PatchInit /\ [][ContainerNext]_vars

\* C34: calculateTaskDimensions gives a container the same width and height
\* for every valid currentPage, so the size a ContainerTaskNode renders with
\* does not change when its page changes.
C34_SameSizeOnEveryPage ==
    [][(container.task # Null /\ container'.task # Null) =>
          (container'.width = container.width /\ container'.height = container.height)]_vars

(***************************************************************************)
(* layout/layoutEngine.ts: LayoutEngine.calculateLayout and the useLayout  *)
(* hook.  SpecEngine: the store holds the chain r, whose subtasks fill     *)
(* more than one page, with its callbacks; the user expands nodes, turns   *)
(* the page and picks the root, and every change runs calculateLayout      *)
(* again.                                                                  *)
(***************************************************************************)
\* subtasks of the chain r
EngineChildren == 22

EngineChildId(i) == "e" \o ToString(i)

EngineChildIds == {EngineChildId(i) : i \in 1 .. EngineChildren}

EngineIds == {"r", "f", "s", "u", "w"} \cup EngineChildIds

\* r has the subtasks e1 .. eN and the success callback s; s has the error
\* callback u; e1 has its sibling e2 as success callback; the subtask e3 is
\* a chain with the subtask f; the last but one subtask has the success
\* callback w, whose error callback is r
EngineGraph ==
    [roots |-> <<"r">>,
     type |-> [t \in EngineIds |-> IF t \in {"r", "e3"} THEN "chain" ELSE "task"],
     parent |-> [t \in EngineIds |->
                    IF t \in EngineChildIds THEN "r" ELSE IF t = "f" THEN "e3" ELSE Null],
     subtasks |-> [t \in EngineIds |->
                      IF t = "r" THEN [i \in 1 .. EngineChildren |-> EngineChildId(i)]
                      ELSE IF t = "e3" THEN <<"f">> ELSE <<>>],
     success |-> [t \in EngineIds |->
                     IF t = "r" THEN <<"s">>
                     ELSE IF t = "e1" THEN <<"e2">>
                     ELSE IF t = EngineChildId(EngineChildren - 1) THEN <<"w">>
                     ELSE <<>>],
     error |-> [t \in EngineIds |->
                   IF t = "s" THEN <<"u">> ELSE IF t = "w" THEN <<"r">> ELSE <<>>]]

\* the store after loadSubtasks(taskId, page, 20) has completed for a chain
PageLoaded(st, taskId, page) ==
    LET ids == PageOf(ServerSubtasks(taskId), page, ApiPageSize)
        subtasksWithParent ==
            [i \in DOMAIN ids |->
                [transformTask(ids[i], ServerSubtasks(ids[i])) EXCEPT !.parentId = taskId]]
        edges == [i \in DOMAIN ids |-> createSubtaskEdge(taskId, ids[i])]
                 \o [i \in 1 .. (Len(ids) - 1) |-> createSequenceEdge(ids[i], ids[i + 1])]
    IN  updateTaskSubtasksLoadingState(
            setEdges(appendSubtaskIds(setTasks(st, subtasksWithParent), taskId, ids, page),
                     edges),
            taskId, "loaded")

\* the store after loadCallbacks(taskId) has completed: the callbacks that
\* are loaded already are not fetched, and without a fetch no edge is made
CallbacksLoaded(st, taskId) ==
    LET success == ServerSuccessCallbacks(taskId)
        error == ServerErrorCallbacks(taskId)
        callbackIds == SelectSeq(success \o error, LAMBDA id : id \notin DOMAIN st.tasks)
    IN  IF callbackIds = <<>> THEN st
        ELSE setEdges(setTasks(st, [i \in DOMAIN callbackIds |->
                                       transformTask(callbackIds[i],
                                                     ServerSubtasks(callbackIds[i]))]),
                      [i \in DOMAIN success |-> createSuccessEdge(taskId, success[i])]
                      \o [i \in DOMAIN error |-> createErrorEdge(taskId, error[i])])

\* r and its callback s; the callbacks of s are not loaded
EngineStore ==
    CallbacksLoaded(
        setRootTaskIds(setTask(initialState, transformTask("r", ServerSubtasks("r"))),
                       <<"r">>),
        "r")

\* task.subtaskIds.slice(startIdx, endIdx)
getVisibleSubtaskIds(task) ==
    LET startIdx == task.subtasksPagination.currentPage * task.subtasksPagination.pageSize
        endIdx == startIdx + task.subtasksPagination.pageSize
    IN  Slice(task.subtaskIds, startIdx, endIdx)

\* the while loop of getRelevantTaskIds over its queue, here waiting
RECURSIVE RelevantLoop(_, _, _, _)
RelevantLoop(tasks, expandedNodeIds, waiting, ids) ==
    IF waiting = <<>> THEN ids
    ELSE LET id == Head(waiting)
         IN  IF id \in ids
             THEN RelevantLoop(tasks, expandedNodeIds, Tail(waiting), ids)
             ELSE IF id \notin DOMAIN tasks
             THEN RelevantLoop(tasks, expandedNodeIds, Tail(waiting), ids \cup {id})
             ELSE LET task == tasks[id]
                      visible == IF id \in expandedNodeIds
                                 THEN getVisibleSubtaskIds(task) ELSE <<>>
                  IN  RelevantLoop(tasks, expandedNodeIds,
                                   Tail(waiting) \o visible \o task.successCallbackIds
                                       \o task.errorCallbackIds,
                                   ids \cup {id})

getRelevantTaskIds(tasks, rootId, expandedNodeIds) ==
    RelevantLoop(tasks, expandedNodeIds, <<rootId>>, {})

\* isInternalEdge that finds no edge internal
isInternalEdge_Never(edge, tasks, expandedNodeIds) == FALSE

isInternalEdge(edge, tasks, expandedNodeIds) ==
    /\ edge.source \in DOMAIN tasks
    /\ edge.target \in DOMAIN tasks
    /\ tasks[edge.source].parentId # Null
    /\ tasks[edge.source].parentId = tasks[edge.target].parentId
    /\ tasks[edge.source].parentId \notin expandedNodeIds

\* calculateLayout up to dagre.layout: the nodes and edges given to the graph
calculateLayout(st, rootId, expandedNodeIds) ==
    LET relevantTaskIds == getRelevantTaskIds(st.tasks, rootId, expandedNodeIds)
    IN  [rootId |-> rootId,
         expandedNodeIds |-> expandedNodeIds,
         relevantTaskIds |-> relevantTaskIds,
         nodes |-> {taskId \in relevantTaskIds : taskId \in DOMAIN st.tasks},
         edges |-> {id \in DOMAIN st.edges :
                       /\ st.edges[id].source \in relevantTaskIds
                       /\ st.edges[id].target \in relevantTaskIds
                       /\ st.edges[id].source \in DOMAIN st.tasks
                       /\ st.edges[id].target \in DOMAIN st.tasks
                       /\ ~isInternalEdge(st.edges[id], st.tasks, expandedNodeIds)}]

\* useLayout(rootId): null without a root
useLayout(st, rootId, expandedNodeIds) ==
    IF rootId = Null
    THEN [rootId |-> Null, expandedNodeIds |-> expandedNodeIds, relevantTaskIds |-> {},
          nodes |-> {}, edges |-> {}]
    ELSE calculateLayout(st, rootId, expandedNodeIds)

EngineFrame_Unchanged ==
    UNCHANGED <<apiVars, loaderState, running, loaderCalls, subtaskRequests, lastOp, opCount,
                hookVars, graphVars, socketVars, measureVars, treeVars, lazyVars, container>>

EngineInit ==
    /\ ApiInit
    /\ LayoutIdle
    /\ server = EngineGraph
    /\ rendered = FirstRender
    /\ processors = {}
    /\ store = EngineStore
    /\ loaderState = LoaderInit
    /\ running = {}
    /\ loaderCalls = <<>>
    /\ subtaskRequests = <<>>
    /\ lastOp = NoOp
    /\ opCount = 0

EngineRoots == {"r", "e1", "w", "u"}

EngineExpandable == {"r", "e3", "s"}

EnginePages == 0 .. 2

\* the viewer is given its root
SetRoot(rootId) ==
    /\ engine.rootId # rootId
    /\ engine' = useLayout(store, rootId, engine.expandedNodeIds)
    /\ UNCHANGED store
    /\ EngineFrame_Unchanged

\* toggleNodeExpanded(taskId) and the render that follows
ToggleNodeExpanded(taskId) ==
    LET expandedNodeIds == IF taskId \in engine.expandedNodeIds
                           THEN engine.expandedNodeIds \ {taskId}
                           ELSE engine.expandedNodeIds \cup {taskId}
    IN  /\ engine' = useLayout(store, engine.rootId, expandedNodeIds)
        /\ UNCHANGED store
        /\ EngineFrame_Unchanged

\* setSubtaskPage(r, page) and the render that follows
TurnPage(page) ==
    /\ store.tasks["r"].subtasksPagination.currentPage # page
    /\ store' = setSubtaskPage(store, "r", page)
    /\ engine' = useLayout(store', engine.rootId, engine.expandedNodeIds)
    /\ EngineFrame_Unchanged

\* loadSubtasks(taskId, page) has completed, and after it the loadCallbacks
\* of the tasks it queued
SubtasksLoaded(taskId, page) ==
    LET last == EngineChildId(EngineChildren - 1)
        loaded == PageLoaded(store, taskId, page)
    IN  /\ taskId \in DOMAIN store.tasks
        /\ page \notin store.tasks[taskId].subtasksPagination.loadedPages
        /\ page > 0 => (page - 1) \in store.tasks[taskId].subtasksPagination.loadedPages
        /\ store' = IF last \in DOMAIN loaded.tasks
                    THEN CallbacksLoaded(CallbacksLoaded(loaded, last), "w")
                    ELSE loaded
        /\ engine' = useLayout(store', engine.rootId, engine.expandedNodeIds)
        /\ EngineFrame_Unchanged

EngineNext ==
    \/ \E rootId \in EngineRoots : SetRoot(rootId)
    \/ \E taskId \in EngineExpandable : ToggleNodeExpanded(taskId)
    \/ \E page \in EnginePages : TurnPage(page)
    \/ \E taskId \in {"r", "e3"}, page \in {0, 1} : SubtasksLoaded(taskId, page)

SpecEngine == EngineInit /\ [][EngineNext]_vars

\* what the layout follows from a task: its callbacks, and the subtasks of
\* its current page when it is expanded
Follows(id) ==
    IF id \notin DOMAIN store.tasks THEN {}
    ELSE LET task == store.tasks[id]
             first == task.subtasksPagination.currentPage * task.subtasksPagination.pageSize
             last == first + task.subtasksPagination.pageSize - 1
         IN  Range(task.successCallbackIds) \cup Range(task.errorCallbackIds)
             \cup (IF id \in engine.expandedNodeIds
                   THEN {task.subtaskIds[i + 1] :
                            i \in {j \in first .. last : j < Len(task.subtaskIds)}}
                   ELSE {})

RECURSIVE ReachedFrom(_)
ReachedFrom(S) ==
    LET T == S \cup UNION {Follows(id) : id \in S}
    IN  IF T = S THEN S ELSE ReachedFrom(T)

CollapsedSiblings ==
    /\ engine.rootId = "e1"
    /\ "r" \notin engine.expandedNodeIds
    /\ {"e1", "e2"} \subseteq engine.nodes
    /\ createEdgeId("e1", "e2", "sequence") \in DOMAIN store.edges \ engine.edges

\* the fetch of a push message comes back after the task the message was
\* about (task_updated) or the parent it named (subtask_added) has been
\* removed from the store
ReturnsAfterRemoval(k) ==
    /\ k \in running
    /\ k \notin running'
    /\ \/ k.kind = "taskUpdate" /\ k.taskId \notin DOMAIN store.tasks
       \/ k.kind = "subtaskAdded" /\ k.ids[1] \notin DOMAIN store.tasks

C36_Step ==
    \A k \in running :
        ReturnsAfterRemoval(k) =>
            /\ k.kind = "taskUpdate" => k.taskId \notin DOMAIN store'.tasks
            /\ k.kind = "subtaskAdded" => store'.tasks = store.tasks

\* C36: a task removed by a task_removed message does not come back through
\* a fetch that a push message started before the removal: when the fetch
\* of task_updated(t) returns after t was removed, the store holds no t, and
\* when the fetch of subtask_added(t, p) returns after p was removed, it
\* writes no task.
C36_RemovedStaysRemoved == [][C36_Step]_vars

(***************************************************************************)
(* SpecPages: the pagination of a chain node.  ChainNode.handleExpand      *)
(* loads page 0, the pagination controls call handlePageChange, the retry  *)
(* button loads the current page again, and subtask_added messages arrive  *)
(* in between.  The page size is the one of the store, 20.                 *)
(***************************************************************************)
PageChildren == 42

PageChildId(i) == "g" \o ToString(i)

PageIds == {"r"} \cup {PageChildId(i) : i \in 1 .. PageChildren}

\* the chain r with the subtasks g1 .. gN and no callbacks
PagesGraph ==
    [roots |-> <<"r">>,
     type |-> [t \in PageIds |-> IF t = "r" THEN "chain" ELSE "task"],
     parent |-> [t \in PageIds |-> IF t = "r" THEN Null ELSE "r"],
     subtasks |-> [t \in PageIds |->
                      IF t = "r" THEN [i \in 1 .. PageChildren |-> PageChildId(i)]
                      ELSE <<>>],
     success |-> [t \in PageIds |-> <<>>],
     error |-> [t \in PageIds |-> <<>>]]

\* the root r is in the store, with or without the ids of its subtasks
PagesInit ==
    /\ ApiInit
    /\ LayoutIdle
    /\ server = PagesGraph
    /\ rendered = FirstRender
    /\ processors = {}
    /\ \E payload \in {<<>>, PagesGraph.subtasks["r"]} :
          store = setRootTaskIds(setTask(initialState,
                                         transformTask("r", payload)),
                                 <<"r">>)
    /\ loaderState = LoaderInit
    /\ running = {}
    /\ loaderCalls = <<>>
    /\ subtaskRequests = <<>>
    /\ lastOp = NoOp
    /\ opCount = 0

\* Math.ceil(pagination.totalCount / pagination.pageSize)
TotalPages(pagination) ==
    (pagination.totalCount + pagination.pageSize - 1) \div pagination.pageSize

\* the pages the buttons of PaginationControls ask for: previous, next, first,
\* last
ControlPages(pagination) ==
    LET currentPage == pagination.currentPage
        totalPages == TotalPages(pagination)
        isFirstPage == currentPage = 0
        isLastPage == currentPage >= totalPages - 1
    IN  (IF isFirstPage THEN {} ELSE {currentPage - 1, 0})
        \cup (IF isLastPage THEN {} ELSE {currentPage + 1, totalPages - 1})

PageChanging(taskId) == \E k \in running : k.kind = "pageChange" /\ k.taskId = taskId

\* the list of steps and the pagination controls are on the screen: the
\* node was expanded by handleExpand, which leaves no subtasks idle, and
\* neither the spinner nor the error message is shown
ControlsShown(taskId) ==
    /\ taskId \in DOMAIN store.tasks
    /\ store.tasks[taskId].subtasksLoadingState \notin {"idle", "loading", "error"}
    /\ ~PageChanging(taskId)
    /\ TotalPages(store.tasks[taskId].subtasksPagination) > 1

\* ChainNode.handleExpand of a collapsed node whose subtasks were never
\* asked for: await loadSubtasks(taskId, 0)
HandleExpand(taskId) ==
    /\ taskId \in DOMAIN store.tasks
    /\ store.tasks[taskId].subtasksLoadingState = "idle"
    /\ Started("handleExpand", taskId)
    /\ TreeAssign(loadSubtasks(LoaderAll, store.tasks, taskId, 0, DEFAULT_PAGE_SIZE))

\* the retry button: loadSubtasks(taskId, pagination?.currentPage ?? 0)
RetryLoad(taskId) ==
    /\ taskId \in DOMAIN store.tasks
    /\ store.tasks[taskId].subtasksLoadingState = "error"
    /\ ~PageChanging(taskId)
    /\ Started("retry", taskId)
    /\ TreeAssign(loadSubtasks(LoaderAll, store.tasks, taskId,
                               store.tasks[taskId].subtasksPagination.currentPage,
                               DEFAULT_PAGE_SIZE))

\* ChainNode.handlePageChange(newPage), up to its await or, for a page that
\* is loaded, to its end
ChainPageChange(taskId, newPage) ==
    LET pagination == store.tasks[taskId].subtasksPagination
        z == loadSubtasks(LoaderAll, store.tasks, taskId, newPage, pagination.pageSize)
        awaited == z.calls[Len(z.calls)].promise
    IN  /\ ControlsShown(taskId)
        /\ newPage \in ControlPages(pagination)
        /\ Started("handlePageChange", taskId)
        /\ IF newPage \in pagination.loadedPages
           THEN /\ store' = setSubtaskPage(store, taskId, newPage)
                /\ UNCHANGED <<loaderState, running, loaderCalls, subtaskRequests>>
           ELSE TreeAssign([z EXCEPT !.run = @ \cup
                               {Continuation("pageChange", taskId, newPage,
                                             pagination.pageSize, <<>>, <<>>, awaited)}])

\* handlePageChange after `await loadSubtasks': actions.setSubtaskPage
PageChangeDone(k) ==
    /\ k.kind = "pageChange"
    /\ loaderCalls[k.promise].status # "pending"
    /\ store' = setSubtaskPage(store, k.taskId, k.page)
    /\ running' = running \ {k}
    /\ lastOp' = Op("handlePageChange", k.taskId)
    /\ UNCHANGED <<loaderState, loaderCalls, subtaskRequests, opCount, apiVars, layoutVars,
                   hookVars>>

\* the subtask a subtask_added message is about: the last one of r
PagesAdded == {PageChildId(PageChildren)}

PagesNext ==
    \/ HandleExpand("r")
    \/ RetryLoad("r")
    \/ \E newPage \in 0 .. 2 : ChainPageChange("r", newPage)
    \/ \E k \in running : PageChangeDone(k)
    \/ \E k \in running : SubtasksPageDone(k)
    \/ \E k \in running : SubtaskDetailsDone(k)
    \/ \E taskId \in PagesAdded : handleSubtaskAdded(taskId, "r")
    \/ \E k \in running : SubtaskAddedDone(k)

SpecPages == PagesInit /\ [][PagesNext]_vars

\* the page the server returned is in loadedPages and in the loader's cache
ServerPageLoaded(taskId, p) ==
    /\ p \in store.tasks[taskId].subtasksPagination.loadedPages
    /\ SubtasksCacheKey(taskId, p) \in loaderState.loadedSubtasks

VisibleSlice(taskId, p) ==
    LET pageSize == store.tasks[taskId].subtasksPagination.pageSize
    IN  Slice(store.tasks[taskId].subtaskIds, p * pageSize, p * pageSize + pageSize)

\* C37: for every page p of the container r that was loaded from the server,
\* the slice of subtaskIds that is shown for page p is the list of ids the
\* server returned for page p, whatever the order of the loads and the
\* subtask_added messages in between.
C37_SliceIsServerPage ==
    \A p \in 0 .. 2 :
        ServerPageLoaded("r", p) =>
            VisibleSlice("r", p) =
                PageOf(ServerSubtasks("r"), p,
                       store.tasks["r"].subtasksPagination.pageSize)

\* handlePageChange has moved the container to another page in this step
PageChangedTo(taskId, newPage) ==
    /\ lastOp'.op = "handlePageChange"
    /\ store.tasks[taskId].subtasksPagination.currentPage # newPage
    /\ store'.tasks[taskId].subtasksPagination.currentPage = newPage

C38_Step ==
    \A newPage \in 0 .. 2 :
        (/\ PageChangedTo("r", newPage)
         /\ store'.tasks["r"].subtasksPagination.loadedPages # {})
            => newPage \in store'.tasks["r"].subtasksPagination.loadedPages

\* C38: when the pagination handler of the container r, which has a loaded
\* page, moves it to the page newPage, newPage is in loadedPages: the page
\* is set only when it has been loaded, also when its load failed.
C38_CurrentPageLoaded == [][C38_Step]_vars

(***************************************************************************)
(* SpecInvalidate: getTask and getTasksBatch with invalidateTask and       *)
(* invalidateAll in between.  Here the invalidations note in `invalidated' *)
(* which calls wait for a fetch that is on its way.                        *)
(***************************************************************************)
MaxInvalidateCalls == 2

\* the calls that wait for data of one of ids that was asked of the server
\* and is not in the cache yet: a request that is sent and not answered, or
\* an earlier chunk of a getTasksBatch that still fetches
InFlight(ids) ==
    {p \in (DOMAIN calls) \X ids :
        \E i \in DOMAIN requests :
            \/ requests[i].phase = "fetching" /\ FetchesFor(requests[i], p[1], p[2])
            \/ /\ requests[i].kind = "chunk"
               /\ requests[i].owner = p[1]
               /\ p[2] \in Range(requests[i].fetched)}

\* invalidateTask(taskId): this.cache.delete(taskId)
InvalidateTaskNoted(id) ==
    /\ cache' = CacheDelete({id})
    /\ invalidated' = invalidated \cup InFlight({id})
    /\ UNCHANGED <<queue, pending, timer, inflightRequests, requests, calls,
                   window, lastDone>>

\* invalidateAll(): this.cache.clear()
InvalidateAllNoted ==
    /\ cache' = CacheDelete(DOMAIN cache)
    /\ invalidated' = invalidated \cup InFlight(ApiIds)
    /\ UNCHANGED <<queue, pending, timer, inflightRequests, requests, calls,
                   window, lastDone>>

InvalidateCall ==
    /\ Len(calls) < MaxInvalidateCalls
    /\ \/ \E id \in ApiIds : GetTask(id)
       \/ \E ids \in BatchArgs : GetTasksBatch(ids)

InvalidateNext ==
    \/ InvalidateCall /\ UNCHANGED <<now, storeVars, layoutVars>>
    \/ (\E id \in ApiIds : InvalidateTaskNoted(id)) /\ UNCHANGED <<now, storeVars, layoutVars>>
    \/ InvalidateAllNoted /\ UNCHANGED <<now, storeVars, layoutVars>>
    \/ TimerStep
    \/ NetworkStep

SpecInvalidate == ClientInit /\ [][InvalidateNext]_vars

\* the step is an invalidation: it notes calls, or it drops cache entries
\* and no call is made
Invalidating ==
    \/ invalidated' # invalidated /\ invalidated \subseteq invalidated'
    \/ /\ DOMAIN cache' # DOMAIN cache
       /\ DOMAIN cache' \subseteq DOMAIN cache
       /\ Len(calls') = Len(calls)

\* the step writes the cache entry of id
CacheWritten(id) ==
    /\ id \in DOMAIN cache'
    /\ id \in DOMAIN cache => cache'[id] # cache[id]

\* the call c gets its answer in this step
Answered(c) == calls[c].status = "pending" /\ calls'[c].status = "resolved"

C39_Step ==
    /\ Invalidating =>
          /\ inflightRequests' = inflightRequests
          /\ queue' = queue
          /\ pending' = pending
          /\ requests' = requests
          /\ calls' = calls
    /\ \A p \in invalidated :
          Answered(p[1]) => (p[2] \in DOMAIN cache' => p[2] \in DOMAIN cache)

\* C39: invalidateTask(id) and invalidateAll() leave the in-flight map, the
\* batch queue, the requests and the waiting calls as they are, and when a
\* fetch of id that was on its way at the invalidation is answered, its
\* result is not put into the cache.
C39_InvalidationHolds == [][C39_Step]_vars

(***************************************************************************)
(* SpecDisconnect: the WebSocketClient with connect(), disconnect() and    *)
(* the events of every socket it has created                               *)
(***************************************************************************)
\* ws.close(): a socket that is connecting or open starts to close
close(state) == IF state \in {"CONNECTING", "OPEN"} THEN "CLOSING" ELSE state

\* disconnect()
disconnect(c, socks) ==
    [client |-> [clearTimers([c EXCEPT !.isIntentionallyClosed = TRUE]) EXCEPT !.ws = 0],
     sockets |-> IF c.ws # 0 THEN [socks EXCEPT ![c.ws] = close(@)] ELSE socks]

\* the cleanup of an effect, or the page, calls wsClient.disconnect()
Disconnect ==
    LET r == disconnect(wsClient, sockets)
    IN  /\ wsClient' = r.client
        /\ sockets' = r.sockets
        /\ UNCHANGED <<reconnects, apiVars, storeVars, graphVars, measureVars, treeVars,
                       lazyVars, viewVars>>

DisconnectNext == SocketNext \/ Disconnect

SpecDisconnect == ClientInit /\ [][DisconnectNext]_vars

\* the sockets that are connecting or open
LiveSockets == {i \in DOMAIN sockets : sockets[i] \in {"CONNECTING", "OPEN"}}

\* a heartbeat timer that fires now sends a ping
PingDue == wsClient.intervals > 0 /\ isConnected(wsClient, sockets)

\* C40: the client has at most one socket that is connecting or open and at
\* most one heartbeat timer running, and from disconnect() to the next
\* connect() no reconnect is scheduled and no ping is sent.
C40_OneSocketOneHeartbeat ==
    /\ Cardinality(LiveSockets) <= 1
    /\ wsClient.intervals <= 1
    /\ wsClient.isIntentionallyClosed =>
          /\ wsClient.reconnectTimer = 0
          /\ ~PingDue

====
